---- MODULE Spec2Model ----
(***************************************************************************)
(* Model of the CSV ingestion pipeline of the merchant KPI dashboard: the  *)
(* import-data edge function with deduplication (importCheckoutData and    *)
(* its Deno.serve handler) running against the merchant_data table, the    *)
(* import-data edge function without deduplication and the in-browser      *)
(* importCheckoutData, which inserts into merchant_data directly.          *)
(*                                                                         *)
(* Text is modelled as a sequence of characters, each character a          *)
(* one-character string; "BOM" stands for U+FEFF.  A field the header does *)
(* not name is the JavaScript value undefined, modelled as Undefined.      *)
(***************************************************************************)
EXTENDS Integers, Sequences, FiniteSets, TLC

\* ------------------------------------------------------------------------
\* Bounds of the model
\* ------------------------------------------------------------------------
\* at most MaxRows data lines in an enumerated CSV text
MaxRows == 2
\* at most MaxRuns import requests in one behaviour over enumerated texts
MaxRuns == 2
\* number of distinct valid rows of the generated bulk CSV text
BulkRows == 1200

\* ------------------------------------------------------------------------
\* Characters and string primitives (ECMAScript String methods)
\* ------------------------------------------------------------------------
Undefined == <<"#undefined">>

WhiteSpace == {" ", "\t", "\r", "\n", "BOM"}

SetMin(S) == CHOOSE x \in S : \A y \in S : x <= y
SetMax(S) == CHOOSE x \in S : \A y \in S : x >= y

\* String.prototype.trim
Trim(s) ==
  IF \A k \in 1..Len(s) : s[k] \in WhiteSpace THEN <<>>
  ELSE LET first == CHOOSE k \in 1..Len(s) :
                      s[k] \notin WhiteSpace /\ \A j \in 1..(k - 1) : s[j] \in WhiteSpace
           last == CHOOSE k \in 1..Len(s) :
                     s[k] \notin WhiteSpace /\ \A j \in (k + 1)..Len(s) : s[j] \in WhiteSpace
       IN  SubSeq(s, first, last)

\* csvContent.replace(/^\uFEFF/, '')
StripBOM(s) == IF Len(s) > 0 /\ s[1] = "BOM" THEN Tail(s) ELSE s

\* String.prototype.split(sep) for a one-character separator, on s[lo..hi]:
\* n separators give n+1 pieces, the empty string gives one empty piece.
RECURSIVE SplitRange(_, _, _, _)
SplitRange(s, sep, lo, hi) ==
  IF \A k \in lo..hi : s[k] # sep THEN << SubSeq(s, lo, hi) >>
  ELSE IF lo = hi THEN << <<>>, <<>> >>
  ELSE LET mid == (lo + hi) \div 2
           L == SplitRange(s, sep, lo, mid)
           R == SplitRange(s, sep, mid + 1, hi)
       IN  SubSeq(L, 1, Len(L) - 1) \o << L[Len(L)] \o R[1] >> \o Tail(R)

Split(s, sep) == SplitRange(s, sep, 1, Len(s))

\* Array.prototype.join with a separator string, over items[lo..hi]
RECURSIVE JoinRange(_, _, _, _)
JoinRange(items, sep, lo, hi) ==
  IF lo > hi THEN <<>>
  ELSE IF lo = hi THEN items[lo]
  ELSE LET mid == (lo + hi) \div 2
       IN  JoinRange(items, sep, lo, mid) \o sep \o JoinRange(items, sep, mid + 1, hi)

Join(items, sep) == JoinRange(items, sep, 1, Len(items))

UpperCase == <<"A","B","C","D","E","F","G","H","I","J","K","L","M",
               "N","O","P","Q","R","S","T","U","V","W","X","Y","Z">>
LowerCase == <<"a","b","c","d","e","f","g","h","i","j","k","l","m",
               "n","o","p","q","r","s","t","u","v","w","x","y","z">>

\* String.prototype.toLowerCase
ToLowerCase(s) ==
  [k \in 1..Len(s) |->
     IF \E u \in 1..26 : UpperCase[u] = s[k]
     THEN LowerCase[CHOOSE u \in 1..26 : UpperCase[u] = s[k]]
     ELSE s[k]]

\* template-literal interpolation `${v}`: undefined prints as "undefined"
Interpolate(v) ==
  IF v = Undefined THEN <<"u","n","d","e","f","i","n","e","d">> ELSE v

\* ------------------------------------------------------------------------
\* Date Normalizer: parseMonthToDate (server path, separator '-')
\* ------------------------------------------------------------------------
\* the outcome of an expression that throws a TypeError
Throw == <<"#throw">>

MonthNames == << <<"j","a","n">>, <<"f","e","b">>, <<"m","a","r">>, <<"a","p","r">>, <<"m","a","y">>, <<"j","u","n">>, <<"j","u","l">>, <<"a","u","g">>, <<"s","e","p">>, <<"o","c","t">>, <<"n","o","v">>, <<"d","e","c">> >>

DigitChars == <<"0","1","2","3","4","5","6","7","8","9">>
Digits == {DigitChars[k] : k \in 1..10}

TwoDigits(n) == << DigitChars[(n \div 10) + 1], DigitChars[(n % 10) + 1] >>

\* a table lookup that falls back to January
monthMap_DefaultsToJan(m) ==
  IF \E k \in 1..12 : MonthNames[k] = m
  THEN TwoDigits(CHOOSE k \in 1..12 : MonthNames[k] = m)
  ELSE <<"0","1">>

\* monthMap[monthLower]: jan..dec -> "01".."12", anything else -> undefined
monthMap(m) ==
  IF \E k \in 1..12 : MonthNames[k] = m
  THEN TwoDigits(CHOOSE k \in 1..12 : MonthNames[k] = m)
  ELSE Undefined

parseMonthToDate(monthStr) ==
  IF monthStr = Undefined THEN Throw
  ELSE LET parts == Split(monthStr, "-")
       IN  IF Len(parts) < 2 THEN Throw
           ELSE LET month == parts[1]
                    year == parts[2]
                    monthLower == ToLowerCase(month)
                    fullYear == IF Len(year) = 2 THEN <<"2","0">> \o year ELSE year
                IN  fullYear \o <<"-">> \o Interpolate(monthMap(monthLower)) \o <<"-","0","1">>

\* ------------------------------------------------------------------------
\* Numeric Coercer: parseFloat(x) || 0
\* ------------------------------------------------------------------------
\* A number is [neg, m, sc]: the value (-1)^neg * m / 10^sc, with sc minimal.
NaN == [nan |-> TRUE]
Zero == [neg |-> FALSE, m |-> 0, sc |-> 0]

DigitVal(c) == (CHOOSE k \in 1..10 : DigitChars[k] = c) - 1

RECURSIVE DigitsToNat(_)
DigitsToNat(ds) ==
  IF ds = <<>> THEN 0
  ELSE 10 * DigitsToNat(SubSeq(ds, 1, Len(ds) - 1)) + DigitVal(ds[Len(ds)])

\* index of the last character of the run of digits of s starting at from
DigitRunEnd(s, from) ==
  LET nd == {k \in from..Len(s) : s[k] \notin Digits}
  IN  IF nd = {} THEN Len(s) ELSE SetMin(nd) - 1

\* drop the trailing zeros of a fraction
RECURSIVE StripZeros(_)
StripZeros(ds) ==
  IF ds # <<>> /\ ds[Len(ds)] = "0" THEN StripZeros(SubSeq(ds, 1, Len(ds) - 1)) ELSE ds

\* parseFloat: optional sign, digits, optional fraction; the longest prefix
\* that is a decimal literal, NaN when there is none
parseFloat(v) ==
  IF v = Undefined THEN NaN
  ELSE LET s == Trim(v)
           signed == Len(s) > 0 /\ s[1] \in {"-", "+"}
           p == IF signed THEN 2 ELSE 1
           ie == DigitRunEnd(s, p)
           int == SubSeq(s, p, ie)
           hasDot == ie < Len(s) /\ s[ie + 1] = "."
           fe == IF hasDot THEN DigitRunEnd(s, ie + 2) ELSE ie
           frac == IF hasDot THEN StripZeros(SubSeq(s, ie + 2, fe)) ELSE <<>>
           raw == IF hasDot THEN SubSeq(s, ie + 2, fe) ELSE <<>>
       IN  IF int = <<>> /\ raw = <<>> THEN NaN
           ELSE [neg |-> signed /\ s[1] = "-",
                 m |-> DigitsToNat(int \o frac),
                 sc |-> Len(frac)]

\* x || 0: NaN, 0 and -0 are falsy
OrZero(x) == IF x = NaN \/ x.m = 0 THEN Zero ELSE x

\* row.tpv.replace(/,/g, '')
RemoveCommas(s) ==
  LET keep == {k \in 1..Len(s) : s[k] # ","}
      nth(j) == CHOOSE k \in keep : Cardinality({q \in keep : q < k}) = j - 1
  IN  [j \in 1..Cardinality(keep) |-> s[nth(j)]]

\* ------------------------------------------------------------------------
\* Field Parser: header names and the row object of one line
\* ------------------------------------------------------------------------
S_pillar == <<"p","i","l","l","a","r">>
S_product_type == <<"p","r","o","d","u","c","t","_","t","y","p","e">>
S_brand_id == <<"b","r","a","n","d","_","i","d">>
S_merchant_name == <<"m","e","r","c","h","a","n","t","_","n","a","m","e">>
S_tpt == <<"t","p","t">>
S_tpv == <<"t","p","v">>
S_month == <<"m","o","n","t","h">>

\* lines[0].split(';').map(h => h.trim())
ParseHeaders(line) ==
  LET hs == Split(line, ";") IN [k \in 1..Len(hs) |-> Trim(hs[k])]

\* values.every(v => !v || !v.trim())
AllEmpty(values) == \A k \in 1..Len(values) : Trim(values[k]) = <<>>

\* row[name] after headers.forEach: the last column named name wins, a
\* missing trailing value is '', a name no header carries is undefined
Field(headers, values, name) ==
  LET cols == {k \in 1..Len(headers) : headers[k] = name}
  IN  IF cols = {} THEN Undefined
      ELSE LET k == SetMax(cols)
           IN  IF k <= Len(values) THEN Trim(values[k]) ELSE <<>>

BuildRow(headers, values) ==
  [pillar |-> Field(headers, values, S_pillar),
   product_type |-> Field(headers, values, S_product_type),
   brand_id |-> Field(headers, values, S_brand_id),
   merchant_name |-> Field(headers, values, S_merchant_name),
   tpt |-> Field(headers, values, S_tpt),
   tpv |-> Field(headers, values, S_tpv),
   month |-> Field(headers, values, S_month)]

\* !x for a string or undefined
Falsy(x) == x = Undefined \/ x = <<>>

\* the key built from the raw month token instead of the normalized date
uniqueKey_RawMonth(row, date) ==
  Interpolate(row.pillar) \o <<"-">> \o Interpolate(row.brand_id) \o <<"-">> \o
  Interpolate(row.merchant_name) \o <<"-">> \o Interpolate(row.product_type) \o
  <<"-">> \o Interpolate(row.month)

\* `${row.pillar}-${row.brand_id}-${row.merchant_name}-${row.product_type}-${date}`
uniqueKey(row, date) ==
  Interpolate(row.pillar) \o <<"-">> \o Interpolate(row.brand_id) \o <<"-">> \o
  Interpolate(row.merchant_name) \o <<"-">> \o Interpolate(row.product_type) \o
  <<"-">> \o date

\* the object pushed onto records
MakeRecord(row, date) ==
  [pillar |-> row.pillar,
   product_type |-> row.product_type,
   brand_id |-> row.brand_id,
   merchant_name |-> row.merchant_name,
   tpt |-> OrZero(parseFloat(row.tpt)),
   tpv |-> OrZero(parseFloat(RemoveCommas(row.tpv))),
   date |-> date]

\* ------------------------------------------------------------------------
\* The merchant_data table (migration: NOT NULL columns, date DATE)
\* ------------------------------------------------------------------------
\* a 'YYYY-MM-01' text the DATE column accepts
ValidDate(d) ==
  /\ Len(d) = 10
  /\ \A k \in {1, 2, 3, 4} : d[k] \in Digits
  /\ d[5] = "-" /\ d[8] = "-"
  /\ \E n \in 1..12 : SubSeq(d, 6, 7) = TwoDigits(n)
  /\ SubSeq(d, 9, 10) = <<"0","1">>

\* the table accepts the row: every NOT NULL column has a value
Insertable(rec) ==
  /\ rec.pillar # Undefined
  /\ rec.product_type # Undefined
  /\ rec.brand_id # Undefined
  /\ rec.merchant_name # Undefined
  /\ ValidDate(rec.date)

\* ------------------------------------------------------------------------
\* Inputs: the CSV texts a request can carry
\* ------------------------------------------------------------------------
HeaderLine == Join(<<S_pillar, S_product_type, S_brand_id, S_merchant_name,
                     S_tpt, S_tpv, S_month>>, <<";">>)

CsvLine(fields) == Join(fields, <<";">>)

\* the data lines the enumerated texts are built from
RowPool ==
  { CsvLine(<< <<"a">>, <<"t">>, <<"b">>, <<"m">>, <<"1">>, <<"2">>, <<"j","a","n","-","2","5">> >>),
    CsvLine(<< <<"a">>, <<"t">>, <<"b">>, <<"m">>, <<"3">>, <<"4">>, <<"J","A","N","-","2","0","2","5">> >>),
    CsvLine(<< <<"a","-","b">>, <<"t">>, <<"c">>, <<"m">>, <<"1">>, <<"2">>, <<"j","a","n","-","2","5">> >>),
    CsvLine(<< <<"a">>, <<"t">>, <<"b","-","c">>, <<"m">>, <<"1">>, <<"2">>, <<"j","a","n","-","2","5">> >>),
    CsvLine(<< <<>>, <<>>, <<>>, <<>>, <<>>, <<>>, <<>> >>),
    CsvLine(<< <<>>, <<"t">>, <<"b">>, <<"m">>, <<"1">>, <<"2">>, <<"j","a","n","-","2","5">> >>),
    CsvLine(<< <<"a">>, <<"t">>, <<"b">>, <<"m">>, <<"1">>, <<"2">>, <<"j","a","n","2","5">> >>),
    CsvLine(<< <<" ","a">>, <<"t">>, <<"b">>, <<"m">>, <<"x">>, <<"1",",","0","0","0">>, <<"f","e","b","-","2","5">> >>) }

RECURSIVE SeqsUpTo(_, _)
SeqsUpTo(S, n) ==
  IF n = 0 THEN { <<>> }
  ELSE LET shorter == SeqsUpTo(S, n - 1)
       IN  shorter \cup { Append(q, x) : q \in shorter, x \in S }

CsvText(rows) == Join(<<HeaderLine>> \o rows, <<"\n">>)

SmallInputs == { CsvText(rows) : rows \in SeqsUpTo(RowPool, MaxRows) } \cup { <<>> }

\* decimal digits of a natural number
RECURSIVE NatToDigits(_)
NatToDigits(n) ==
  IF n < 10 THEN << DigitChars[n + 1] >>
  ELSE Append(NatToDigits(n \div 10), DigitChars[(n % 10) + 1])

\* the k-th valid row of the bulk text: brand_id is k, so the keys differ
BulkLine(k) ==
  CsvLine(<< <<"a">>, <<"t">>, NatToDigits(k), <<"m">>, <<"1">>, <<"2">>, <<"j","a","n","-","2","5">> >>)

\* a bulk text: an empty line, a line without pillar, n distinct valid rows
\* and, when there is one, a repeat of the first of them
BulkText(n) ==
  CsvText(<< CsvLine(<< <<>>, <<>>, <<>>, <<>>, <<>>, <<>>, <<>> >>),
             CsvLine(<< <<>>, <<"t">>, <<"b">>, <<"m">>, <<"1">>, <<"2">>, <<"j","a","n","-","2","5">> >>) >>
          \o [k \in 1..n |-> BulkLine(k)]
          \o (IF n > 0 THEN << BulkLine(1) >> ELSE <<>>))

\* rows the table may hold before the first request
PriorRow ==
  [pillar |-> <<"a">>, product_type |-> <<"t">>, brand_id |-> <<"b">>,
   merchant_name |-> <<"m">>, tpt |-> Zero, tpv |-> Zero,
   date |-> <<"2","0","2","5","-","0","1","-","0","1">>]

InitialStores == { <<>>, << PriorRow >> }

\* ------------------------------------------------------------------------
\* State
\* ------------------------------------------------------------------------
batchSize == 500

\* sizes of the bulk texts: none, one, around one and two batches, BulkRows
BulkSizes == {0, 1, batchSize - 1, batchSize, batchSize + 1, 2 * batchSize, BulkRows}

VARIABLES
  csvContent,        \* the CSV text the operator uploads
  entry,             \* the entry point the operator's requests go to
  pending,           \* import requests the operator has still to send
  store,             \* rows of merchant_data, in insertion order
  pc,                \* Idle, Purging, Inserting, Completed, Failed, Rejected
  clearExisting,     \* the reload flag of the request being served
  records,           \* accepted records, in input line order
  seenKeys,          \* keys seen in this invocation
  duplicatesSkipped,
  i,                 \* index of the batch loop
  totalInserted,
  inflight,          \* store calls issued and not yet answered
  response,          \* the last HTTP response
  calls,             \* store calls answered in this run: op, size, ok
  storeAtStart,      \* the table when the current request arrived
  history,           \* one entry per completed run: imported,
                     \* duplicatesSkipped, the table's size before and
                     \* after, the reload flag
  build,             \* the dashboard source that runs: part_001 or part_002
  importing,         \* useState(false): an import handler is running
  loading,           \* useState(false): the loading indicator
  fileInputs,        \* file inputs created by handleImportData whose
                     \* dialog is open
  imports,           \* import handlers that are running, each at an await
  alerts,            \* the alert() messages shown, in order
  selection,         \* the filter chosen: product, pillar, period and
                     \* end of range as one value, and the start of range
  page,              \* the current page of the aggregate table
  totalRows,         \* the row count the table was last told
  table,             \* the rows shown and the query they were fetched for
  kpiMetrics,        \* the KPI card shown and the query it was fetched for
  loads              \* loadAll calls that are waiting for their queries

\* the state of the dashboard component
ui == << build, importing, loading, fileInputs, imports, alerts, selection, page,
         totalRows, table, kpiMetrics, loads >>

\* the state of the import functions and of the table they write
job == << csvContent, entry, pending, store, pc, clearExisting, records, seenKeys,
          duplicatesSkipped, i, totalInserted, inflight, response, calls,
          storeAtStart, history >>

vars == << job, ui >>

NoResponse == [status |-> 0]

InitRun ==
  /\ pc = "Idle"
  /\ clearExisting = FALSE
  /\ records = <<>>
  /\ seenKeys = {}
  /\ duplicatesSkipped = 0
  /\ i = 0
  /\ totalInserted = 0
  /\ inflight = {}
  /\ response = NoResponse
  /\ calls = <<>>
  /\ history = <<>>

\* the dashboard before it is mounted: the useState initial values
NoQuery == [selection |-> [filter |-> 0, rangeStart |-> 0], page |-> 0]

InitDashboard ==
  /\ build = "part_002"
  /\ importing = FALSE
  /\ loading = FALSE
  /\ fileInputs = 0
  /\ imports = {}
  /\ alerts = <<>>
  /\ selection = [filter |-> 1, rangeStart |-> 1]
  /\ page = 1
  /\ totalRows = 0
  /\ table = [rows |-> 0, query |-> NoQuery]
  /\ kpiMetrics = [tpt |-> 0, tpv |-> 0, prevTpt |-> 0, prevTpv |-> 0,
                   category |-> "idle", query |-> NoQuery]
  /\ loads = {}

Init ==
  /\ InitDashboard
  /\ csvContent \in SmallInputs
  /\ entry = "http-dedup"
  /\ pending = MaxRuns
  /\ store \in InitialStores
  /\ storeAtStart = store
  /\ InitRun

\* one request carrying a bulk text
InitBulk ==
  /\ InitDashboard
  /\ csvContent \in { BulkText(n) : n \in BulkSizes }
  /\ entry = "http-dedup"
  /\ pending = 1
  /\ store \in InitialStores
  /\ storeAtStart = store
  /\ InitRun

\* ------------------------------------------------------------------------
\* The row loop of importCheckoutData, lines 48-97
\* ------------------------------------------------------------------------
\* const lines = cleanContent.trim().split('\n')
Lines(content) == Split(Trim(StripBOM(content)), "\n")

Headers(content) == ParseHeaders(Lines(content)[1])

\* a seen-key set that starts from the keys of the rows in the table
LoopStart_SeededFromStore ==
  [records |-> <<>>,
   seenKeys |-> {uniqueKey(store[k], store[k].date) : k \in 1..Len(store)},
   duplicatesSkipped |-> 0, thrown |-> FALSE]

\* the loop's variables before the first iteration
LoopStart == [records |-> <<>>, seenKeys |-> {}, duplicatesSkipped |-> 0,
              thrown |-> FALSE]

\* duplicatesSkipped++
CountDuplicate_Forgotten(st) == st

CountDuplicate(st) == [st EXCEPT !.duplicatesSkipped = @ + 1]

\* an iteration that counts a line without pillar or brand_id as a duplicate
RowStep_SkipCounted(st, hs, line) ==
  LET values == Split(line, ";")
      row == BuildRow(hs, values)
      date == parseMonthToDate(row.month)
      key == uniqueKey(row, date)
  IN  IF st.thrown THEN st
      ELSE IF AllEmpty(values) THEN st
      ELSE IF Falsy(row.pillar) \/ Falsy(row.brand_id) THEN CountDuplicate(st)
      ELSE IF date = Throw THEN [st EXCEPT !.thrown = TRUE]
      ELSE IF key \in st.seenKeys
      THEN CountDuplicate(st)
      ELSE IF row.tpv = Undefined
      THEN [st EXCEPT !.seenKeys = @ \cup {key}, !.thrown = TRUE]
      ELSE [st EXCEPT !.seenKeys = @ \cup {key},
                      !.records = Append(@, MakeRecord(row, date))]

\* one iteration of the row loop on one line
RowStep(st, hs, line) ==
  LET values == Split(line, ";")
      row == BuildRow(hs, values)
      date == parseMonthToDate(row.month)
      key == uniqueKey(row, date)
  IN  IF st.thrown THEN st
      ELSE IF AllEmpty(values) THEN st
      ELSE IF Falsy(row.pillar) \/ Falsy(row.brand_id) THEN st
      ELSE IF date = Throw THEN [st EXCEPT !.thrown = TRUE]
      ELSE IF key \in st.seenKeys
      THEN CountDuplicate(st)
      ELSE IF row.tpv = Undefined
      THEN [st EXCEPT !.seenKeys = @ \cup {key}, !.thrown = TRUE]
      ELSE [st EXCEPT !.seenKeys = @ \cup {key},
                      !.records = Append(@, MakeRecord(row, date))]

\* the iterations on lines lo..hi (1-based), in line order; a throw ends
\* the loop
RECURSIVE RowLoop(_, _, _, _, _)
RowLoop(st, hs, ls, lo, hi) ==
  IF lo > hi THEN st
  ELSE IF lo = hi THEN RowStep(st, hs, ls[lo])
  ELSE LET mid == (lo + hi) \div 2
           done == RowLoop(st, hs, ls, lo, mid)
       IN  IF done.thrown THEN done ELSE RowLoop(done, hs, ls, mid + 1, hi)

\* the loop's variables after the first n data lines of the text
ParseUpTo(content, n) ==
  LET ls == Lines(content)
  IN  RowLoop(LoopStart, ParseHeaders(ls[1]), ls, 2, n + 1)

Parse(content) == ParseUpTo(content, Len(Lines(content)) - 1)

\* ------------------------------------------------------------------------
\* Responses of the Deno.serve handler
\* ------------------------------------------------------------------------
Response400 == [status |-> 400, body |-> [error |-> "CSV content is required"]]

\* a failure response that reports the rows inserted so far
Response500_Partial ==
  [status |-> 500,
   body |-> [error |-> "error", imported |-> totalInserted, skipped |-> 0,
             errors |-> 1, message |-> "Import failed"]]

Response500 ==
  [status |-> 500,
   body |-> [error |-> "error", imported |-> 0, skipped |-> 0, errors |-> 1,
             message |-> "Import failed"]]

\* a result that counts the parsed rows, duplicates included, as imported
Response200_CountsParsed(recs, dups, cleared) ==
  [status |-> 200,
   body |-> [imported |-> Len(recs) + dups,
             duplicatesSkipped |-> dups,
             cleared |-> cleared,
             errors |-> 0,
             message |-> "Data imported successfully"]]

\* the returned result, answered with status 200
Response200(recs, dups, cleared) ==
  [status |-> 200,
   body |-> [imported |-> Len(recs),
             duplicatesSkipped |-> dups,
             cleared |-> cleared,
             errors |-> 0,
             message |-> "Data imported successfully"]]

\* ------------------------------------------------------------------------
\* The batch loop, lines 101-129
\* ------------------------------------------------------------------------
\* a slice that takes one element too many
Slice_OffByOne(recs, from, to) ==
  SubSeq(recs, from + 1, IF to + 1 < Len(recs) THEN to + 1 ELSE Len(recs))

\* records.slice(from, to)
Slice(recs, from, to) ==
  SubSeq(recs, from + 1, IF to < Len(recs) THEN to ELSE Len(recs))

\* the inserts of all remaining batches issued at once, none awaited
InsertCalls_NoAwait(recs, idx) ==
  {[op |-> "insert", from |-> j, batch |-> Slice(recs, j, j + batchSize)] :
     j \in {k \in idx..(Len(recs) - 1) : (k - idx) % batchSize = 0}}

\* the insert call the loop issues at index idx and awaits
InsertCalls(recs, idx) ==
  {[op |-> "insert", from |-> idx, batch |-> Slice(recs, idx, idx + batchSize)]}

\* the batch loop from index idx up to its next await, or to the return
LoadFrom(recs, dups, cleared, idx, tableAfter) ==
  /\ i' = idx
  /\ IF idx < Len(recs)
     THEN /\ inflight' = InsertCalls(recs, idx)
          /\ pc' = "Inserting"
          /\ response' = NoResponse
          /\ UNCHANGED history
     ELSE /\ inflight' = {}
          /\ pc' = "Completed"
          /\ response' = Response200(recs, dups, cleared)
          /\ history' = Append(history, [imported |-> Len(recs),
                                         duplicatesSkipped |-> dups,
                                         before |-> Len(storeAtStart'),
                                         rows |-> Len(tableAfter),
                                         cleared |-> cleared])

\* lines 48-105: parse the text, then enter the batch loop; a TypeError in
\* the row loop is rethrown and answered with status 500
ParseAndLoad(cleared, tableAfter) ==
  \E st \in { Parse(csvContent) } :
      /\ records' = st.records
      /\ seenKeys' = st.seenKeys
      /\ duplicatesSkipped' = st.duplicatesSkipped
      /\ totalInserted' = 0
      /\ IF st.thrown
         THEN /\ pc' = "Failed"
              /\ response' = Response500
              /\ inflight' = {}
              /\ i' = 0
              /\ UNCHANGED history
         ELSE LoadFrom(st.records, st.duplicatesSkipped, cleared, 0, tableAfter)

\* ------------------------------------------------------------------------
\* Actions: the handler and importCheckoutData, from one await to the next
\* ------------------------------------------------------------------------
\* the handler receives a request: 400 without content, else the import
\* starts, with the delete-all call first when the reload flag is set
Request(flag) ==
  /\ pc \in {"Idle", "Completed", "Failed", "Rejected"}
  /\ pending > 0
  /\ pending' = pending - 1
  /\ clearExisting' = flag
  /\ storeAtStart' = store
  /\ calls' = <<>>
  /\ IF csvContent = <<>>
     THEN /\ response' = Response400
          /\ pc' = "Rejected"
          /\ records' = <<>> /\ seenKeys' = {} /\ duplicatesSkipped' = 0
          /\ i' = 0 /\ totalInserted' = 0 /\ inflight' = {}
          /\ UNCHANGED history
     ELSE IF flag
     THEN /\ inflight' = {[op |-> "delete", from |-> 0, batch |-> <<>>]}
          /\ pc' = "Purging"
          /\ response' = NoResponse
          /\ records' = <<>> /\ seenKeys' = {} /\ duplicatesSkipped' = 0
          /\ i' = 0 /\ totalInserted' = 0
          /\ UNCHANGED history
     ELSE ParseAndLoad(flag, store)
  /\ UNCHANGED << ui, csvContent, entry, store >>

\* a delete whose filter matches no row: the call succeeds, the rows stay
PurgeOk_KeepsRows ==
  /\ pc = "Purging"
  /\ UNCHANGED << ui, csvContent, entry, pending, clearExisting, storeAtStart >>
  /\ \E c \in inflight : c.op = "delete"
  /\ store' = store
  /\ calls' = Append(calls, [op |-> "delete", size |-> 0, ok |-> TRUE])
  /\ ParseAndLoad(clearExisting, store)

\* the delete-all call succeeds: the table is empty, parsing starts
PurgeOk ==
  /\ pc = "Purging"
  /\ UNCHANGED << ui, csvContent, entry, pending, clearExisting, storeAtStart >>
  /\ \E c \in inflight : c.op = "delete"
  /\ store' = <<>>
  /\ calls' = Append(calls, [op |-> "delete", size |-> 0, ok |-> TRUE])
  /\ ParseAndLoad(clearExisting, <<>>)

\* the error of the delete-all call is ignored and the import goes on
PurgeFail_Ignored ==
  /\ pc = "Purging"
  /\ UNCHANGED << ui, csvContent, entry, pending, store, clearExisting, storeAtStart >>
  /\ \E c \in inflight : c.op = "delete"
  /\ calls' = Append(calls, [op |-> "delete", size |-> 0, ok |-> FALSE])
  /\ ParseAndLoad(clearExisting, store)

\* the delete-all call reports an error: it is thrown up to the handler
PurgeFail ==
  /\ pc = "Purging"
  /\ \E c \in inflight :
       /\ c.op = "delete"
       /\ inflight' = inflight \ {c}
  /\ calls' = Append(calls, [op |-> "delete", size |-> 0, ok |-> FALSE])
  /\ response' = Response500
  /\ pc' = "Failed"
  /\ UNCHANGED << ui, csvContent, entry, pending, store, clearExisting, records, seenKeys,
                  duplicatesSkipped, i, totalInserted, storeAtStart, history >>

\* the awaited insert succeeds: the table holds the batch and the loop goes
\* on to the next batch or to the return
InsertOk ==
  /\ pc = "Inserting"
  /\ UNCHANGED << ui, csvContent, entry, pending, clearExisting, records, seenKeys,
                  duplicatesSkipped, storeAtStart >>
  /\ \E c \in inflight :
       /\ c.op = "insert"
       /\ {k \in 1..Len(c.batch) : ~Insertable(c.batch[k])} = {}
       /\ store' = store \o c.batch
       /\ totalInserted' = totalInserted + Len(c.batch)
       /\ calls' = Append(calls, [op |-> "insert", size |-> Len(c.batch), ok |-> TRUE])
       /\ LoadFrom(records, duplicatesSkipped, clearExisting, i + batchSize,
                   store \o c.batch)

\* the error of the insert is ignored and the loop goes on
InsertFail_Ignored ==
  /\ pc = "Inserting"
  /\ UNCHANGED << ui, csvContent, entry, pending, store, clearExisting, records, seenKeys,
                  duplicatesSkipped, totalInserted, storeAtStart >>
  /\ \E c \in inflight :
       /\ c.op = "insert"
       /\ calls' = Append(calls, [op |-> "insert", size |-> Len(c.batch), ok |-> FALSE])
  /\ LoadFrom(records, duplicatesSkipped, clearExisting, i + batchSize, store)

\* a failing insert that is issued again until it succeeds
InsertFail_Retried ==
  /\ pc = "Inserting"
  /\ \E c \in inflight :
       /\ c.op = "insert"
       /\ calls' = Append(calls, [op |-> "insert", size |-> Len(c.batch), ok |-> FALSE])
  /\ UNCHANGED << ui, csvContent, entry, pending, store, clearExisting, records, seenKeys,
                  duplicatesSkipped, i, totalInserted, storeAtStart, history, inflight,
                  response, pc >>

\* a failing insert that undoes the run: the table is what it was at the start
InsertFail_RollsBack ==
  /\ pc = "Inserting"
  /\ \E c \in inflight :
       /\ c.op = "insert"
       /\ inflight' = inflight \ {c}
       /\ calls' = Append(calls, [op |-> "insert", size |-> Len(c.batch), ok |-> FALSE])
  /\ store' = storeAtStart
  /\ response' = Response500
  /\ pc' = "Failed"
  /\ UNCHANGED << ui, csvContent, entry, pending, clearExisting, records, seenKeys,
                  duplicatesSkipped, i, totalInserted, storeAtStart, history >>

\* the awaited insert reports an error: it is thrown up to the handler
InsertFail ==
  /\ pc = "Inserting"
  /\ \E c \in inflight :
       /\ c.op = "insert"
       /\ inflight' = inflight \ {c}
       /\ calls' = Append(calls, [op |-> "insert", size |-> Len(c.batch), ok |-> FALSE])
  /\ response' = Response500
  /\ pc' = "Failed"
  /\ UNCHANGED << ui, csvContent, entry, pending, store, clearExisting, records, seenKeys,
                  duplicatesSkipped, i, totalInserted, storeAtStart, history >>

Next ==
  \/ \E flag \in BOOLEAN : Request(flag)
  \/ PurgeOk
  \/ PurgeFail
  \/ InsertOk
  \/ InsertFail

Spec == Init /\ [][Next]_vars

SpecBulk == InitBulk /\ [][Next]_vars

TypeOK ==
  /\ pc \in {"Idle", "Purging", "Inserting", "Completed", "Failed", "Rejected"}
  /\ pending \in 0..MaxRuns

\* ------------------------------------------------------------------------
\* The import-data edge function without deduplication (index.ts)
\* ------------------------------------------------------------------------
\* one iteration of the row loop of index.ts, lines 41-67: no key, no
\* duplicate test; parseMonthToDate is the same function as above
PlainRowStep(st, hs, line) ==
  LET values == Split(line, ";")
      row == BuildRow(hs, values)
      date == parseMonthToDate(row.month)
  IN  IF st.thrown THEN st
      ELSE IF AllEmpty(values) THEN st
      ELSE IF Falsy(row.pillar) \/ Falsy(row.brand_id) THEN st
      ELSE IF row.tpv = Undefined \/ date = Throw THEN [st EXCEPT !.thrown = TRUE]
      ELSE [st EXCEPT !.records = Append(@, MakeRecord(row, date))]

\* ------------------------------------------------------------------------
\* The direct-call import (lib/importCheckoutData.ts)
\* ------------------------------------------------------------------------
\* parseMonthToDate of the direct-call import: the token is split on '_',
\* the month is looked up as written and the year is used as written
ClientParseMonthToDate(monthStr) ==
  IF monthStr = Undefined THEN Throw
  ELSE LET parts == Split(monthStr, "_")
           month == parts[1]
           year == IF Len(parts) >= 2 THEN parts[2] ELSE Undefined
       IN  Interpolate(year) \o <<"-">> \o Interpolate(monthMap(month)) \o <<"-","0","1">>

\* the object pushed onto records: tpv is parsed as written
ClientMakeRecord(row, date) ==
  [pillar |-> row.pillar,
   product_type |-> row.product_type,
   brand_id |-> row.brand_id,
   merchant_name |-> row.merchant_name,
   tpt |-> OrZero(parseFloat(row.tpt)),
   tpv |-> OrZero(parseFloat(row.tpv)),
   date |-> date]

\* an iteration that tests the pillar only
ClientRowStep_PillarOnly(st, hs, line) ==
  LET values == Split(line, ";")
      row == BuildRow(hs, values)
      date == ClientParseMonthToDate(row.month)
  IN  IF st.thrown THEN st
      ELSE IF AllEmpty(values) THEN st
      ELSE IF Falsy(row.pillar) THEN st
      ELSE IF date = Throw THEN [st EXCEPT !.thrown = TRUE]
      ELSE [st EXCEPT !.records = Append(@, ClientMakeRecord(row, date))]

\* one iteration of the row loop of the direct-call import, lines 28-51
ClientRowStep(st, hs, line) ==
  LET values == Split(line, ";")
      row == BuildRow(hs, values)
      date == ClientParseMonthToDate(row.month)
  IN  IF st.thrown THEN st
      ELSE IF AllEmpty(values) THEN st
      ELSE IF Falsy(row.pillar) \/ Falsy(row.brand_id) THEN st
      ELSE IF date = Throw THEN [st EXCEPT !.thrown = TRUE]
      ELSE [st EXCEPT !.records = Append(@, ClientMakeRecord(row, date))]

\* const lines = csvContent.trim().split('\n'): trim removes a leading BOM
ClientLines(content) == Split(Trim(content), "\n")

\* ------------------------------------------------------------------------
\* The row loop of each entry point
\* ------------------------------------------------------------------------
EntryPoints == {"http-dedup", "http", "direct"}

StepOf(e, st, hs, line) ==
  CASE e = "http-dedup" -> RowStep(st, hs, line)
    [] e = "http" -> PlainRowStep(st, hs, line)
    [] e = "direct" -> ClientRowStep(st, hs, line)

LinesOf(e, content) == IF e = "direct" THEN ClientLines(content) ELSE Lines(content)

\* the loop's variables after the first n data lines, for entry point e
RECURSIVE PathLoop(_, _, _, _)
PathLoop(e, hs, ls, n) ==
  IF n = 0 THEN LoopStart
  ELSE LET before == PathLoop(e, hs, ls, n - 1)
       IN  StepOf(e, before, hs, ls[n + 1])

PathParse(e, content) ==
  LET ls == LinesOf(e, content)
  IN  PathLoop(e, ParseHeaders(ls[1]), ls, Len(ls) - 1)

\* ------------------------------------------------------------------------
\* Actions of the edge function without deduplication
\* ------------------------------------------------------------------------
\* the result of index.ts, answered with status 200
PlainResponse200(recs) ==
  [status |-> 200,
   body |-> [imported |-> Len(recs), skipped |-> 0, errors |-> 0,
             message |-> "Data imported successfully"]]

\* the batch loop of index.ts from index idx up to its next await, or to
\* the return
PlainLoadFrom(recs, idx) ==
  /\ i' = idx
  /\ IF idx < Len(recs)
     THEN /\ inflight' = InsertCalls(recs, idx)
          /\ pc' = "Inserting"
          /\ response' = NoResponse
     ELSE /\ inflight' = {}
          /\ pc' = "Completed"
          /\ response' = PlainResponse200(recs)

\* the handler of index.ts receives a request: it reads csvContent only, so
\* a clearExisting flag in the body has no effect
PlainRequest(flag) ==
  /\ entry = "http"
  /\ pc \in {"Idle", "Completed", "Failed", "Rejected"}
  /\ pending > 0
  /\ pending' = pending - 1
  /\ clearExisting' = flag
  /\ storeAtStart' = store
  /\ calls' = <<>>
  /\ seenKeys' = {} /\ duplicatesSkipped' = 0 /\ totalInserted' = 0
  /\ IF csvContent = <<>>
     THEN /\ response' = Response400
          /\ pc' = "Rejected"
          /\ records' = <<>> /\ i' = 0 /\ inflight' = {}
     ELSE \E st \in { PathParse("http", csvContent) } :
            /\ records' = st.records
            /\ IF st.thrown
               THEN /\ pc' = "Failed"
                    /\ response' = Response500
                    /\ inflight' = {}
                    /\ i' = 0
               ELSE PlainLoadFrom(st.records, 0)
  /\ UNCHANGED << ui, csvContent, entry, store, history >>

PlainInsertOk ==
  /\ entry = "http"
  /\ pc = "Inserting"
  /\ \E c \in inflight :
       /\ c.op = "insert"
       /\ {k \in 1..Len(c.batch) : ~Insertable(c.batch[k])} = {}
       /\ store' = store \o c.batch
       /\ totalInserted' = totalInserted + Len(c.batch)
       /\ calls' = Append(calls, [op |-> "insert", size |-> Len(c.batch), ok |-> TRUE])
       /\ PlainLoadFrom(records, i + batchSize)
  /\ UNCHANGED << ui, csvContent, entry, pending, clearExisting, records, seenKeys,
                  duplicatesSkipped, storeAtStart, history >>

PlainInsertFail ==
  /\ entry = "http"
  /\ pc = "Inserting"
  /\ \E c \in inflight :
       /\ c.op = "insert"
       /\ inflight' = inflight \ {c}
       /\ calls' = Append(calls, [op |-> "insert", size |-> Len(c.batch), ok |-> FALSE])
  /\ response' = Response500
  /\ pc' = "Failed"
  /\ UNCHANGED << ui, csvContent, entry, pending, store, clearExisting, records, seenKeys,
                  duplicatesSkipped, i, totalInserted, storeAtStart, history >>

\* ------------------------------------------------------------------------
\* Actions of the direct-call import
\* ------------------------------------------------------------------------
\* the object the direct-call import returns; it has no HTTP status
ClientResult(imported, errors, message) ==
  [status |-> 0,
   body |-> [imported |-> imported, skipped |-> 0, errors |-> errors,
             message |-> message]]

\* a 'YY-MM-01' text: the DATE column takes it or not by the DateStyle of
\* the database session
TwoDigitYearDate(d) ==
  /\ Len(d) = 8
  /\ d[1] \in Digits /\ d[2] \in Digits
  /\ d[3] = "-" /\ d[6] = "-"
  /\ \E n \in 1..12 : SubSeq(d, 4, 5) = TwoDigits(n)
  /\ SubSeq(d, 7, 8) = <<"0","1">>

\* the table accepts the row under some DateStyle
InsertableByStyle(rec) ==
  \/ Insertable(rec)
  \/ /\ TwoDigitYearDate(rec.date)
     /\ Insertable([rec EXCEPT !.date = <<"2","0">> \o @])

\* importCheckoutData(csvContent) up to its await: the text is parsed and
\* all records are sent in one insert call, also when there are none; a
\* TypeError in the row loop is caught and reported in the result
ClientImport ==
  /\ entry = "direct"
  /\ pc \in {"Idle", "Completed", "Failed", "Rejected"}
  /\ pending > 0
  /\ pending' = pending - 1
  /\ clearExisting' = FALSE
  /\ storeAtStart' = store
  /\ calls' = <<>>
  /\ seenKeys' = {} /\ duplicatesSkipped' = 0 /\ totalInserted' = 0 /\ i' = 0
  /\ \E st \in { PathParse("direct", csvContent) } :
       /\ records' = st.records
       /\ IF st.thrown
          THEN /\ pc' = "Failed"
               /\ response' = ClientResult(0, 1, "Import failed")
               /\ inflight' = {}
          ELSE /\ pc' = "Inserting"
               /\ response' = NoResponse
               /\ inflight' = {[op |-> "insert", from |-> 0, batch |-> st.records]}
  /\ UNCHANGED << ui, csvContent, entry, store, history >>

\* the insert succeeds: the table holds the records
ClientInsertOk ==
  /\ entry = "direct"
  /\ pc = "Inserting"
  /\ \E c \in inflight :
       /\ {k \in 1..Len(c.batch) : ~InsertableByStyle(c.batch[k])} = {}
       /\ store' = store \o c.batch
       /\ calls' = Append(calls, [op |-> "insert", size |-> Len(c.batch), ok |-> TRUE])
  /\ inflight' = {}
  /\ pc' = "Completed"
  /\ response' = ClientResult(Len(records), 0, "Data imported successfully")
  /\ UNCHANGED << ui, csvContent, entry, pending, clearExisting, records, seenKeys,
                  duplicatesSkipped, i, totalInserted, storeAtStart, history >>

\* an insert error that leaves the function as an exception: no result
ClientInsertFail_Rethrown ==
  /\ entry = "direct"
  /\ pc = "Inserting"
  /\ \E c \in inflight :
       calls' = Append(calls, [op |-> "insert", size |-> Len(c.batch), ok |-> FALSE])
  /\ inflight' = {}
  /\ pc' = "Failed"
  /\ response' = NoResponse
  /\ UNCHANGED << ui, csvContent, entry, pending, store, clearExisting, records, seenKeys,
                  duplicatesSkipped, i, totalInserted, storeAtStart, history >>

\* the insert reports an error: it is caught and reported in the result
ClientInsertFail ==
  /\ entry = "direct"
  /\ pc = "Inserting"
  /\ \E c \in inflight :
       calls' = Append(calls, [op |-> "insert", size |-> Len(c.batch), ok |-> FALSE])
  /\ inflight' = {}
  /\ pc' = "Failed"
  /\ response' = ClientResult(0, 1, "Import failed")
  /\ UNCHANGED << ui, csvContent, entry, pending, store, clearExisting, records, seenKeys,
                  duplicatesSkipped, i, totalInserted, storeAtStart, history >>

\* ------------------------------------------------------------------------
\* Inputs of the three entry points
\* ------------------------------------------------------------------------
\* at most MaxPathRows data lines in a text enumerated from PathPool
MaxPathRows == 2

S_Wallets_Billing == <<"W","a","l","l","e","t","s","_","B","i","l","l","i","n","g">>
S_PayChat == <<"P","a","y","C","h","a","t">>
S_Acme == <<"A","c","m","e">>

\* String.prototype.toUpperCase on the letters a..z
ToUpperCase(s) ==
  [k \in 1..Len(s) |->
     IF \E u \in 1..26 : LowerCase[u] = s[k]
     THEN UpperCase[CHOOSE u \in 1..26 : LowerCase[u] = s[k]]
     ELSE s[k]]

\* the abbreviation of month k written in lower case, upper case or
\* capitalized
MonthAbbrev(k, style) ==
  CASE style = "lower" -> MonthNames[k]
    [] style = "upper" -> ToUpperCase(MonthNames[k])
    [] style = "title" -> ToUpperCase(SubSeq(MonthNames[k], 1, 1)) \o SubSeq(MonthNames[k], 2, 3)

LetterCases == {"lower", "upper", "title"}
Separators == {"_", "-"}
Years == { <<"2","5">>, <<"1","9","9","9">> }

\* a data line with the given tpt, tpv and month fields
MetricLine(tpt, tpv, month) ==
  CsvLine(<< <<"a">>, <<"t">>, <<"b">>, <<"m">>, tpt, tpv, month >>)

\* one line for every well-formed month token of either convention
TokenLines ==
  { MetricLine(<<"1">>, <<"2">>, MonthAbbrev(k, style) \o <<sep>> \o year) :
      k \in 1..12, style \in LetterCases, sep \in Separators, year \in Years }

Jan_25 == <<"j","a","n","_","2","5">>
Jan_2025 == <<"j","a","n","_","2","0","2","5">>
JanDash25 == <<"j","a","n","-","2","5">>
FooDash25 == <<"f","o","o","-","2","5">>
Foo_2025 == <<"f","o","o","_","2","0","2","5">>

\* the duplicate-row scenario, with the month token of either convention
ScenarioLine(month) ==
  CsvLine(<< S_Wallets_Billing, S_PayChat, <<"B","1">>, S_Acme, <<"1","0">>,
             <<"1",",","0","0","0">>, month >>)

ScenarioText(month) == CsvText(<< ScenarioLine(month), ScenarioLine(month) >>)

\* lines that come alone in a text: an empty product_type, an empty tpt and
\* a tpv with thousands separators, a tpv that is no number, negative
\* metrics, an unknown month, an empty month, a line of two fields
SingleLines ==
  { CsvLine(<< <<"a">>, <<>>, <<"b">>, <<"m">>, <<"1">>, <<"2">>, JanDash25 >>),
    CsvLine(<< <<"a">>, <<>>, <<"b">>, <<"m">>, <<"1">>, <<"2">>, Jan_2025 >>),
    MetricLine(<<>>, <<"1",",","2","3","4",",","5","6","7">>, JanDash25),
    MetricLine(<<>>, <<"1",",","2","3","4",",","5","6","7">>, Jan_2025),
    MetricLine(<<"3">>, <<"a","b","c">>, JanDash25),
    MetricLine(<<"x">>, <<"a","b","c">>, Jan_2025),
    MetricLine(<<"-","5">>, <<"-","1",".","5">>, JanDash25),
    MetricLine(<<"-","5">>, <<"-","1",".","5">>, Jan_2025),
    MetricLine(<<"1">>, <<"2">>, Foo_2025),
    MetricLine(<<"1">>, <<"2">>, <<>>),
    CsvLine(<< <<"a">>, <<"t">> >>) }

\* lines the enumerated texts are built from: a valid line of each
\* convention, lines that are skipped, a line with an unknown month
PathPool ==
  { MetricLine(<<"1">>, <<"2">>, JanDash25),
    MetricLine(<<"1">>, <<"2">>, Jan_2025),
    CsvLine(<< <<>>, <<>>, <<>>, <<>>, <<>>, <<>>, <<>> >>),
    CsvLine(<< <<>>, <<"t">>, <<"b">>, <<"m">>, <<"1">>, <<"2">>, JanDash25 >>),
    CsvLine(<< <<"a">>, <<"t">>, <<" ">>, <<"m">>, <<"1">>, <<"2">>, Jan_2025 >>),
    MetricLine(<<"1">>, <<"2">>, FooDash25) }

\* a text whose header names no month column: row.month is undefined
NoMonthText ==
  Join(<< S_pillar \o <<";">> \o S_brand_id, <<"a",";","b">> >>, <<"\n">>)

PathInputs ==
  { CsvText(rows) : rows \in SeqsUpTo(PathPool, MaxPathRows) }
  \cup { CsvText(<< line >>) : line \in SingleLines \cup TokenLines }
  \cup { ScenarioText(Jan_25), ScenarioText(JanDash25), NoMonthText, <<>> }

\* one request to one of the entry points
InitPaths ==
  /\ InitDashboard
  /\ csvContent \in PathInputs
  /\ entry \in EntryPoints
  /\ pending = 1
  /\ store \in InitialStores
  /\ storeAtStart = store
  /\ InitRun

NextPaths ==
  \/ entry = "http-dedup" /\ Next
  \/ \E flag \in BOOLEAN : PlainRequest(flag)
  \/ PlainInsertOk
  \/ PlainInsertFail
  \/ ClientImport
  \/ ClientInsertOk
  \/ ClientInsertFail

SpecPaths == InitPaths /\ [][NextPaths]_vars

\* ------------------------------------------------------------------------
\* The input as the claims see it
\* ------------------------------------------------------------------------
\* the row objects of the lines after the header, in line order
DataRows ==
  LET ls == Lines(csvContent)
      hs == ParseHeaders(ls[1])
  IN  [k \in 1..(Len(ls) - 1) |-> BuildRow(hs, Split(ls[k + 1], ";"))]

\* data lines whose pillar and brand_id are non-empty after trimming
ValidIn(rows) ==
  {k \in 1..Len(rows) : ~Falsy(rows[k].pillar) /\ ~Falsy(rows[k].brand_id)}

ValidRows == ValidIn(DataRows)

\* the identity tuple of a row object and of an accepted record
RowTuple(row) ==
  << row.pillar, row.brand_id, row.merchant_name, row.product_type,
     parseMonthToDate(row.month) >>

RecordTuple(rec) ==
  << rec.pillar, rec.brand_id, rec.merchant_name, rec.product_type, rec.date >>

TuplesDistinct(recs) ==
  \A a, b \in 1..Len(recs) : a < b => RecordTuple(recs[a]) # RecordTuple(recs[b])

\* the loop's variables before the first iteration and after each of the
\* first n; a throw ends the loop, so the points after it repeat its state
RECURSIVE LoopTrace(_, _, _)
LoopTrace(hs, ls, n) ==
  IF n = 0 THEN << LoopStart >>
  ELSE LET before == LoopTrace(hs, ls, n - 1)
           last == before[n]
       IN  Append(before, IF last.thrown THEN last ELSE RowStep(last, hs, ls[n + 1]))

\* the loop's variables at every point of the row loop over the input
LoopPoints ==
  LET ls == Lines(csvContent)
      tr == LoopTrace(ParseHeaders(ls[1]), ls, Len(ls) - 1)
  IN  {tr[k] : k \in 1..Len(tr)}

\* the table before the inserts of the current run
TableBase == IF clearExisting THEN <<>> ELSE storeAtStart

\* the answered insert calls of the current run, in order
IsInsert(c) == c.op = "insert"
InsertsAnswered == SelectSeq(calls, IsInsert)

\* rows of the batches whose insert succeeded
RECURSIVE OkRows(_)
OkRows(cs) ==
  IF cs = <<>> THEN 0
  ELSE (IF Head(cs).op = "insert" /\ Head(cs).ok THEN Head(cs).size ELSE 0)
       + OkRows(Tail(cs))

\* an insert call of the current run reported an error
InsertFailed == \E k \in 1..Len(calls) : calls[k].op = "insert" /\ ~calls[k].ok

\* ------------------------------------------------------------------------
\* Claims
\* ------------------------------------------------------------------------
\* C1: a completed run returns imported + duplicatesSkipped equal to the
\* number of data lines whose pillar and brand_id are both non-empty.
C1_DedupCorrectness ==
  pc = "Completed" =>
    response.body.imported + response.body.duplicatesSkipped = Cardinality(ValidRows)

\* a completed run that accepted a row and skipped a duplicate of it
C1_Witness ==
  /\ pc = "Completed"
  /\ response.body.imported >= 1
  /\ response.body.duplicatesSkipped >= 1

\* C2: at every point of the row loop and at its end, no two accepted
\* records share the tuple (pillar, brand_id, merchant_name, product_type,
\* date).
C2_KeyUniqueness ==
  /\ TuplesDistinct(records)
  /\ pc \in {"Inserting", "Completed", "Failed"} =>
       \A st \in LoopPoints : TuplesDistinct(st.records)

\* a row was accepted and a later row with the same normalized date skipped
C2_Witness ==
  /\ Len(records) >= 1
  /\ duplicatesSkipped >= 1
  /\ \E a, b \in ValidRows : a < b /\ DataRows[a].month # DataRows[b].month

\* C3: a valid row is dropped and counted in duplicatesSkipped exactly when
\* an earlier valid row of the input carries the same tuple; rows whose
\* tuples differ in some field are all accepted.
C3_FirstOccurrenceWins ==
  pc = "Completed" =>
    LET rows == DataRows
        valid == ValidIn(rows)
    IN  /\ duplicatesSkipped =
             Cardinality({k \in valid :
                            \E j \in valid : j < k /\ RowTuple(rows[j]) = RowTuple(rows[k])})
        /\ Len(records) = Cardinality({RowTuple(rows[k]) : k \in valid})

\* C4: when the delete-all call of a reload reports an error the import
\* fails at once: nothing is parsed, no insert is issued and the table is
\* as it was.
C4_PurgeFailure ==
  (calls # <<>> /\ calls[1].op = "delete" /\ ~calls[1].ok) =>
    /\ pc = "Failed"
    /\ response.status = 500
    /\ records = <<>> /\ seenKeys = {} /\ duplicatesSkipped = 0
    /\ inflight = {}
    /\ Len(calls) = 1
    /\ store = storeAtStart

\* a failed purge of a table that held rows, for a text with valid rows
C4_Witness ==
  /\ calls = << [op |-> "delete", size |-> 0, ok |-> FALSE] >>
  /\ store # <<>>
  /\ ValidRows # {}

\* C5 as claimed: when the k-th insert call fails the operation reports
\* failure and the imported count it reports is the sum of the sizes of the
\* batches completed before it.
C5_PartialFailureCount ==
  (pc = "Failed" /\ InsertFailed) =>
    /\ response.status = 500
    /\ response.body.imported = OkRows(calls)

\* C5 as amended: the insert calls have sizes batchSize, ..., batchSize and
\* the remainder; when the k-th fails the operation answers 500 with
\* imported 0 and errors 1, and the k-1 batches completed before it are the
\* rows the run leaves in the table.
C5_PartialFailureReportsZero ==
  /\ \A k \in 1..Len(InsertsAnswered) :
       InsertsAnswered[k].size =
         (IF k * batchSize <= Len(records)
          THEN batchSize ELSE Len(records) - (k - 1) * batchSize)
  /\ (pc = "Failed" /\ InsertFailed) =>
       /\ response.status = 500
       /\ response.body.imported = 0
       /\ response.body.errors = 1
       /\ OkRows(calls) = batchSize * (Len(InsertsAnswered) - 1)
       /\ Len(store) = Len(TableBase) + OkRows(calls)

\* the second of three insert calls failed: one batch is in the table and
\* the response reports none
C5_Witness ==
  /\ pc = "Failed"
  /\ Len(InsertsAnswered) = 2
  /\ InsertsAnswered[1].ok /\ ~InsertsAnswered[2].ok
  /\ Len(records) = BulkRows
  /\ Len(store) = Len(TableBase) + batchSize
  /\ response.body.imported = 0

\* C6: once an insert call of a run reports an error no further store call
\* is issued in that run, and the rows of the batches inserted before it
\* stay in the table.
C6_AbortOnFirstFailure ==
  InsertFailed =>
    /\ pc = "Failed"
    /\ inflight = {}
    /\ ~calls[Len(calls)].ok
    /\ \A k \in 1..(Len(calls) - 1) : calls[k].ok
    /\ store = TableBase \o SubSeq(records, 1, OkRows(calls))

\* the second insert failed with further batches left and the first in place
C6_Witness ==
  /\ InsertFailed
  /\ OkRows(calls) = batchSize
  /\ Len(records) > 2 * batchSize
  /\ Len(store) = Len(TableBase) + batchSize

\* C7: at most one store call is in flight, and the insert of a batch is in
\* flight only after every earlier call of the run has succeeded, the
\* inserts of all earlier batches among them.
C7_SequentialBatches ==
  /\ Cardinality(inflight) <= 1
  /\ \A c \in inflight :
       /\ \A k \in 1..Len(calls) : calls[k].ok
       /\ c.op = "insert" =>
            /\ c.from = batchSize * Len(InsertsAnswered)
            /\ c.from = OkRows(calls)
       /\ c.op = "delete" => calls = <<>>

\* the insert of the third batch is in flight
C7_Witness ==
  \E c \in inflight : c.op = "insert" /\ c.from = 2 * batchSize

\* C8: the batches sent are consecutive chunks of the accepted records, of 1
\* to batchSize records, all but the last of exactly batchSize; a successful
\* run leaves the accepted records in the table once each, in line order,
\* and issues no insert for an empty list.
C8_BatchPartition ==
  /\ \A k \in 1..Len(InsertsAnswered) :
       /\ InsertsAnswered[k].size >= 1
       /\ InsertsAnswered[k].size <= batchSize
       /\ (k - 1) * batchSize + InsertsAnswered[k].size <= Len(records)
       /\ k * batchSize < Len(records) => InsertsAnswered[k].size = batchSize
       /\ k * batchSize >= Len(records) =>
            InsertsAnswered[k].size = Len(records) - (k - 1) * batchSize
  /\ \A c \in inflight :
       c.op = "insert" =>
         /\ c.from = batchSize * Len(InsertsAnswered)
         /\ Len(c.batch) >= 1 /\ Len(c.batch) <= batchSize
         /\ c.from + batchSize < Len(records) => Len(c.batch) = batchSize
         /\ c.batch = [k \in 1..Len(c.batch) |-> records[c.from + k]]
  /\ pc = "Completed" =>
       /\ store = TableBase \o records
       /\ Len(InsertsAnswered) * batchSize >= Len(records)
       /\ Len(InsertsAnswered) * batchSize < Len(records) + batchSize
       /\ OkRows(calls) = Len(records)

\* a run of three batches, the last one partial, completed
C8_Witness ==
  /\ pc = "Completed"
  /\ Len(InsertsAnswered) = 3
  /\ InsertsAnswered[3].size < batchSize

\* C9: a completed run returns imported equal to the number of records the
\* run inserted, cleared equal to the reload flag and errors 0.
C9_CompletedResult ==
  pc = "Completed" =>
    /\ response.status = 200
    /\ response.body.imported = OkRows(calls)
    /\ Len(store) = Len(TableBase) + response.body.imported
    /\ response.body.cleared = clearExisting
    /\ response.body.cleared = (calls # <<>> /\ calls[1].op = "delete")
    /\ response.body.errors = 0

\* a reload of several batches with a skipped duplicate completed
C9_Witness ==
  /\ pc = "Completed"
  /\ clearExisting
  /\ Len(InsertsAnswered) >= 2
  /\ duplicatesSkipped >= 1

\* C10: completed reloads of the same text return the same imported count,
\* and after each the table holds exactly that many rows, whatever it held
\* before.
C10_IdempotentReload ==
  /\ \A k \in 1..Len(history) :
       history[k].cleared => history[k].rows = history[k].imported
  /\ \A j, k \in 1..Len(history) :
       (history[j].cleared /\ history[k].cleared) =>
         history[j].imported = history[k].imported
  /\ (pc = "Completed" /\ clearExisting) => Len(store) = response.body.imported

\* two completed reloads of a text with rows, the table not empty at first
C10_Witness ==
  /\ Len(history) = 2
  /\ history[1].cleared /\ history[2].cleared
  /\ history[1].before > 0
  /\ history[1].imported >= 1
  /\ pc = "Completed"

\* ------------------------------------------------------------------------
\* The input as each entry point reads it
\* ------------------------------------------------------------------------
\* the row objects of the data lines, in line order
RECURSIVE RowsUpTo(_, _, _)
RowsUpTo(hs, ls, n) ==
  IF n = 0 THEN <<>>
  ELSE Append(RowsUpTo(hs, ls, n - 1), BuildRow(hs, Split(ls[n + 1], ";")))

PathRows ==
  LET ls == LinesOf(entry, csvContent)
  IN  RowsUpTo(ParseHeaders(ls[1]), ls, Len(ls) - 1)

\* the loop's variables before the first data line and after each one
RECURSIVE PathTrace(_, _, _, _)
PathTrace(e, hs, ls, n) ==
  IF n = 0 THEN (0 :> LoopStart)
  ELSE LET before == PathTrace(e, hs, ls, n - 1)
       IN  before @@ (n :> StepOf(e, before[n - 1], hs, ls[n + 1]))

\* the loop's variables after 0, 1, ... data lines of the text
PathPoints ==
  LET ls == LinesOf(entry, csvContent)
  IN  PathTrace(entry, ParseHeaders(ls[1]), ls, Len(ls) - 1)

\* the store calls of the current run, answered or in flight
DeletesIssued ==
  Cardinality({k \in 1..Len(calls) : calls[k].op = "delete"})
  + Cardinality({c \in inflight : c.op = "delete"})

InsertIssued ==
  \/ \E k \in 1..Len(calls) : calls[k].op = "insert"
  \/ \E c \in inflight : c.op = "insert"

\* C11: a run of an HTTP import whose request carries clearExisting = true
\* issues exactly one delete-all call, answered with success before any
\* insert call is issued; a run whose request does not carry it issues no
\* delete call and keeps every row the table held before.
C11_PurgeOrdering ==
  entry \in {"http-dedup", "http"} =>
    /\ (clearExisting /\ pc \in {"Purging", "Inserting", "Completed", "Failed"}) =>
         /\ DeletesIssued = 1
         /\ InsertIssued => (calls[1].op = "delete" /\ calls[1].ok)
    /\ ~clearExisting =>
         /\ DeletesIssued = 0
         /\ Len(store) >= Len(storeAtStart)
         /\ SubSeq(store, 1, Len(storeAtStart)) = storeAtStart

\* C12: the seen keys of a run are the keys of the records it accepted from
\* its own input, whatever the table holds; completed runs of the same text
\* without reload return the same imported and the same duplicatesSkipped,
\* and each adds imported rows to the table.
C12_InputLocalDedup ==
  /\ pc \in {"Inserting", "Completed"} =>
       seenKeys = {uniqueKey(records[k], records[k].date) : k \in 1..Len(records)}
  /\ \A j, k \in 1..Len(history) :
       (~history[j].cleared /\ ~history[k].cleared) =>
         /\ history[j].imported = history[k].imported
         /\ history[j].duplicatesSkipped = history[k].duplicatesSkipped
  /\ \A k \in 1..Len(history) :
       ~history[k].cleared => history[k].rows = history[k].before + history[k].imported

\* the same text imported twice without reload, a duplicate skipped each
\* time: the table holds the accepted row twice
C12_Witness ==
  /\ pc = "Completed"
  /\ Len(history) = 2
  /\ ~history[1].cleared /\ ~history[2].cleared
  /\ history[2].imported >= 1 /\ history[2].duplicatesSkipped >= 1
  /\ Len(store) = history[1].before + 2 * history[2].imported
  /\ \E a, b \in 1..Len(store) : a < b /\ store[a] = store[b]

\* a field that is empty after trimming
EmptyField(x) == x = Undefined \/ Trim(x) = <<>>

\* the data lines whose fields are all empty after trimming, or whose
\* pillar or brand_id is
SkippedLines ==
  LET ls == LinesOf(entry, csvContent)
      rows == PathRows
  IN  {n \in 1..(Len(ls) - 1) :
         LET values == Split(ls[n + 1], ";")
         IN  \/ \A k \in 1..Len(values) : EmptyField(values[k])
             \/ EmptyField(rows[n].pillar)
             \/ EmptyField(rows[n].brand_id)}

\* C13: at every entry point the iteration on a line that is all empty, or
\* whose pillar or brand_id is empty, leaves the loop as it was: no record,
\* no seen key, no count and no exception; a run that gets through the row
\* loop has one accepted record or one counted duplicate for each of the
\* other lines, and a completed run reports errors 0.
C13_SilentlySkipped ==
  LET pts == PathPoints
      skipped == SkippedLines
  IN
  /\ \A n \in skipped : pts[n] = pts[n - 1]
  /\ pc \in {"Inserting", "Completed"} =>
       /\ Len(records) + duplicatesSkipped = Len(PathRows) - Cardinality(skipped)
       /\ Cardinality(seenKeys) <= Len(records)
  /\ pc = "Completed" =>
       /\ response.body.errors = 0
       /\ response.body.imported = Len(records)

\* a completed run over a text whose first data line is skipped and whose
\* second is accepted
C13_Witness ==
  /\ pc = "Completed"
  /\ 1 \in SkippedLines
  /\ Len(PathRows) = 2
  /\ Len(records) = 1
  /\ Len(store) = Len(storeAtStart) + 1

\* the data lines the row loop accepts, and the record it pushes for one
AcceptedLines ==
  LET pts == PathPoints
  IN  {n \in (DOMAIN pts) \ {0} :
         Len(pts[n].records) = Len(pts[n - 1].records) + 1}

\* the record the last accepting iteration pushed
LastRecord(st) == st.records[Len(st.records)]

\* a text of decimal digits, and a text that does not start a number
AllDigits(s) == s # <<>> /\ \A k \in 1..Len(s) : s[k] \in Digits

NoNumber(s) ==
  \/ s = Undefined
  \/ Trim(s) = <<>>
  \/ Trim(s)[1] \notin (Digits \cup {"-", "+", "."})

\* C14: at every entry point the record of an accepted line carries as tpv
\* the number its tpv field spells once the commas are removed, and exactly
\* 0 for a tpv or tpt field that is empty or is no number; the records are
\* sent to the store.
C14_NumericResilience ==
  pc = "Inserting" =>
    LET pts == PathPoints
        rows == PathRows
    IN
    /\ records = pts[Len(rows)].records
    /\ \A n \in AcceptedLines :
         LET r == LastRecord(pts[n])
             row == rows[n]
         IN  /\ AllDigits(RemoveCommas(row.tpv)) =>
                  r.tpv = OrZero([neg |-> FALSE,
                                  m |-> DigitsToNat(RemoveCommas(row.tpv)),
                                  sc |-> 0])
             /\ NoNumber(row.tpv) => r.tpv = Zero
             /\ NoNumber(row.tpt) => r.tpt = Zero

\* the records sent to the store in the insert calls in flight
SentRecords ==
  UNION { {c.batch[k] : k \in 1..Len(c.batch)} :
            c \in {d \in inflight : d.op = "insert"} }

\* the rows of the table
StoredRows == {store[k] : k \in 1..Len(store)}

\* C15 as claimed: every record the pipeline accepts and sends to the store
\* has a non-empty pillar, a non-empty product_type and a non-empty
\* brand_id.
C15_RequiredFields ==
  \A r \in {records[k] : k \in 1..Len(records)} \cup SentRecords \cup StoredRows :
    /\ ~EmptyField(r.pillar)
    /\ ~EmptyField(r.product_type)
    /\ ~EmptyField(r.brand_id)

\* C15 as amended: every record the pipeline accepts and sends to the store
\* has a non-empty pillar and a non-empty brand_id.
C15_RequiredPillarBrand ==
  \A r \in {records[k] : k \in 1..Len(records)} \cup SentRecords \cup StoredRows :
    /\ ~EmptyField(r.pillar)
    /\ ~EmptyField(r.brand_id)

\* a completed run has inserted a record whose product_type is empty
C15_Witness ==
  /\ pc = "Completed"
  /\ \E k \in 1..Len(records) :
       /\ records[k].product_type = <<>>
       /\ records[k].pillar # <<>> /\ records[k].brand_id # <<>>
       /\ records[k] \in StoredRows

\* C16: every record sent to the store, and every row of the table, has
\* tpt >= 0 and tpv >= 0.
C16_NonNegativeMetrics ==
  \A r \in {records[k] : k \in 1..Len(records)} \cup SentRecords \cup StoredRows :
    ~r.tpt.neg /\ ~r.tpv.neg

\* the separator of the month token at each entry point
SeparatorOf(e) == IF e = "direct" THEN "_" ELSE "-"

\* a month token <mon><sep><year>: one of the 12 abbreviations in any
\* letter case, the separator of the entry point, a year of 2 or 4 digits
WellFormedToken(e, tok) ==
  /\ tok # Undefined
  /\ Len(tok) \in {6, 8}
  /\ \E k \in 1..12 : MonthNames[k] = ToLowerCase(SubSeq(tok, 1, 3))
  /\ tok[4] = SeparatorOf(e)
  /\ \A k \in 5..Len(tok) : tok[k] \in Digits

\* 'YYYY-MM-01' for a well-formed token, a 2-digit year YY read as 20YY
ExpectedDate(tok) ==
  LET year == SubSeq(tok, 5, Len(tok))
      mm == CHOOSE k \in 1..12 : MonthNames[k] = ToLowerCase(SubSeq(tok, 1, 3))
  IN  (IF Len(year) = 2 THEN <<"2","0">> \o year ELSE year)
      \o <<"-">> \o TwoDigits(mm) \o <<"-","0","1">>

\* C17: at every entry point a line with a well-formed month token does not
\* stop the row loop, and the record of an accepted line with a well-formed
\* month token carries the date 'YYYY-MM-01' of that token when it is sent
\* to the store.
C17_DateNormalization ==
  LET pts == PathPoints
      rows == PathRows
  IN
  /\ \A n \in 1..Len(rows) :
       (WellFormedToken(entry, rows[n].month) /\ ~pts[n - 1].thrown) =>
         ~pts[n].thrown
  /\ pc = "Inserting" =>
       \A n \in AcceptedLines :
         WellFormedToken(entry, rows[n].month) =>
           /\ LastRecord(pts[n]) \in SentRecords
           /\ LastRecord(pts[n]).date = ExpectedDate(rows[n].month)

\* C18: a run over the header line and two identical data lines
\* 'Wallets_Billing;PayChat;B1;Acme;10;1,000;jan_25' fails only when a store
\* call fails, and when it completes it returns imported 1 and
\* duplicatesSkipped 1 and has inserted exactly one row.
C18_DuplicateRowScenario ==
  csvContent = ScenarioText(Jan_25) =>
    /\ pc = "Failed" => \E k \in 1..Len(calls) : ~calls[k].ok
    /\ pc = "Completed" =>
         /\ response.body.imported = 1
         /\ "duplicatesSkipped" \in DOMAIN response.body
         /\ response.body.duplicatesSkipped = 1
         /\ OkRows(calls) = 1

\* C19: whatever the data lines of the text contain, an import fails only
\* when a store call of the run has failed.
C19_OnlyStoreFailuresEscalate ==
  pc = "Failed" =>
    /\ calls # <<>>
    /\ ~calls[Len(calls)].ok

\* a month token with the separator of the entry point and a year of 2 or 4
\* digits whose abbreviation is none of jan..dec in any letter case
UnknownMonthToken(e, tok) ==
  /\ tok # Undefined
  /\ Len(tok) \in {6, 8}
  /\ \A k \in 1..12 : MonthNames[k] # ToLowerCase(SubSeq(tok, 1, 3))
  /\ tok[4] = SeparatorOf(e)
  /\ \A k \in 5..Len(tok) : tok[k] \in Digits

\* the month segment of a date text 'year-month-day'
MonthSegment(d) ==
  LET parts == Split(d, "-") IN IF Len(parts) = 3 THEN parts[2] ELSE Undefined

\* the data lines with pillar and brand_id whose month token is unknown
UnknownMonthLines ==
  LET rows == PathRows
      skipped == SkippedLines
  IN  {n \in 1..Len(rows) :
         n \notin skipped /\ UnknownMonthToken(entry, rows[n].month)}

\* C20 as claimed: a valid line with an unknown month abbreviation is
\* accepted and sent to the store with an invalid month segment, and does
\* not fail the import: the table takes the insert that carries it, so that
\* the run counts it in imported.
C20_UnknownMonthImported ==
  pc = "Inserting" =>
    LET pts == PathPoints
    IN  \A n \in UnknownMonthLines \cap AcceptedLines :
          /\ LastRecord(pts[n]) \in SentRecords
          /\ MonthSegment(LastRecord(pts[n]).date) \notin {TwoDigits(k) : k \in 1..12}
          /\ InsertableByStyle(LastRecord(pts[n]))

\* C20 as amended: a valid line with an unknown month abbreviation does not
\* stop the row loop; it is accepted and sent to the store with a date
\* whose month segment is the text 'undefined'; the table rejects the
\* insert that carries it, so the run never completes and no such row is
\* stored.
C20_UnknownMonthRejectedByStore ==
  LET pts == PathPoints
      unknown == UnknownMonthLines
      accepted == AcceptedLines
  IN
  /\ \A n \in unknown :
       /\ ~pts[n - 1].thrown => ~pts[n].thrown
       /\ n \in accepted =>
            LET r == LastRecord(pts[n])
            IN  /\ MonthSegment(r.date) = Interpolate(Undefined)
                /\ (pc = "Inserting" => r \in SentRecords)
                /\ pc # "Completed"
  /\ \A r \in StoredRows : MonthSegment(r.date) # Interpolate(Undefined)
  /\ (pc = "Failed" /\ unknown \cap accepted # {}) =>
       /\ response.body.imported = 0
       /\ response.body.errors = 1

\* the insert that carried a record with month segment 'undefined' failed
C20_Witness ==
  /\ pc = "Failed"
  /\ InsertFailed
  /\ entry = "http-dedup"
  /\ \E k \in 1..Len(records) : MonthSegment(records[k].date) = Interpolate(Undefined)
  /\ response.status = 500
\* ------------------------------------------------------------------------
\* The answers of the HTTP handlers
\* ------------------------------------------------------------------------
\* the handler has returned its Response
Answered == pc \in {"Rejected", "Failed", "Completed"}

\* the keys of the JSON bodies
FailureKeys == {"error", "imported", "skipped", "errors", "message"}
SuccessKeys == {"imported", "duplicatesSkipped", "cleared", "errors", "message"}

\* the three kinds of answer of the import endpoint
IsAnswer400 == response.status = 400 /\ DOMAIN response.body = {"error"}

IsAnswer500 ==
  /\ response.status = 500
  /\ DOMAIN response.body = FailureKeys
  /\ response.body.imported = 0
  /\ response.body.skipped = 0
  /\ response.body.errors = 1

IsAnswer200 ==
  /\ response.status = 200
  /\ DOMAIN response.body = SuccessKeys
  /\ response.body.errors = 0

\* C21: an answered request to either import endpoint has a body and is
\* exactly one of 400 (csvContent absent), 500 with {error, imported 0,
\* skipped 0, errors 1, message} (an exception during processing) and 200
\* with {imported, duplicatesSkipped, cleared, errors 0, message} (success).
C21_OutcomeTrichotomy ==
  (entry \in {"http-dedup", "http"} /\ Answered) =>
    /\ "body" \in DOMAIN response
    /\ pc = "Rejected" <=> csvContent = <<>>
    /\ pc = "Rejected" => IsAnswer400
    /\ pc = "Failed" => IsAnswer500
    /\ pc = "Completed" => IsAnswer200

\* ------------------------------------------------------------------------
\* The result of the direct-call import
\* ------------------------------------------------------------------------
ResultKeys == {"imported", "skipped", "errors", "message"}

\* the row loop of the direct-call import throws on the text
ClientParseThrows == PathParse("direct", csvContent).thrown

\* C22: the direct-call import ends with a result object and never with an
\* exception; when its row loop throws or its insert reports an error the
\* result is {imported 0, skipped 0, errors 1, message}, and when the insert
\* succeeds it is errors 0 with imported the number of records inserted.
C22_DirectSoftContract ==
  LET throws == ClientParseThrows
  IN
  (entry = "direct" /\ pc # "Idle") =>
    /\ pc \in {"Inserting", "Failed", "Completed"}
    /\ throws => pc = "Failed" /\ calls = <<>>
    /\ pc \in {"Failed", "Completed"} =>
         /\ "body" \in DOMAIN response
         /\ DOMAIN response.body = ResultKeys
    /\ pc = "Failed" =>
         /\ throws \/ (Len(calls) = 1 /\ ~calls[1].ok)
         /\ response.body.imported = 0
         /\ response.body.skipped = 0
         /\ response.body.errors = 1
         /\ store = storeAtStart
    /\ pc = "Completed" =>
         /\ calls = << [op |-> "insert", size |-> Len(records), ok |-> TRUE] >>
         /\ response.body.errors = 0
         /\ response.body.skipped = 0
         /\ response.body.imported = Len(store) - Len(storeAtStart)
         /\ store = storeAtStart \o records

\* the insert of a parsed record reported an error and the import returned
\* a result with errors 1
C22_Witness ==
  /\ entry = "direct"
  /\ pc = "Failed"
  /\ Len(records) > 0
  /\ Len(calls) = 1 /\ ~calls[1].ok
  /\ response.body.errors = 1

\* ------------------------------------------------------------------------
\* The same rows at the direct-call form and at the HTTP form
\* ------------------------------------------------------------------------
\* a month token with '_' written with '-'
DashToken(tok) == [k \in 1..Len(tok) |-> IF tok[k] = "_" THEN "-" ELSE tok[k]]

\* a data line with its month field (the seventh) written with '-'
HttpLine(line) ==
  LET values == Split(line, ";")
  IN  IF Len(values) < 7 THEN line
      ELSE Join([k \in 1..Len(values) |->
                   IF k = 7 THEN DashToken(values[k]) ELSE values[k]], <<";">>)

\* the text of a direct-call import as it is posted to the HTTP form: the
\* same header and rows, the month tokens written with '-'
HttpForm(content) ==
  LET ls == Split(content, "\n")
  IN  Join([k \in 1..Len(ls) |-> IF k = 1 THEN ls[k] ELSE HttpLine(ls[k])], <<"\n">>)

\* C24: a direct-call import that completes on an empty table leaves in it
\* the records that either HTTP form accepts from the same rows, in the
\* same order, and reports the imported count the HTTP form reports.
C24_EquivalentEntryPoints ==
  (entry = "direct" /\ pc = "Completed" /\ storeAtStart = <<>>) =>
    \A e \in {"http-dedup", "http"} :
      LET http == PathParse(e, HttpForm(csvContent))
      IN  /\ ~http.thrown
          /\ store = http.records
          /\ response.body.imported = Len(http.records)

\* ------------------------------------------------------------------------
\* The dashboard: deriveCategory
\* ------------------------------------------------------------------------
Builds == {"part_001", "part_002"}

\* prev ? ((curr - prev) / prev) * 100 : 0 compared with a bound, in exact
\* arithmetic: the change is below the bound
ChangeBelow(curr, prev, bound) ==
  IF prev = 0 THEN 0 < bound
  ELSE IF prev > 0 THEN (curr - prev) * 100 < bound * prev
  ELSE (curr - prev) * 100 > bound * prev

\* deriveCategory(tpt, tpv, prevTpt, prevTpv) of dashboard b; an omitted
\* previous value is falsy, like 0; only part_001 has the idle test
deriveCategory(b, tpt, tpv, prevTpt, prevTpv) ==
  IF b = "part_001" /\ tpt = 0 /\ tpv = 0 THEN "idle"
  ELSE IF ChangeBelow(tpt, prevTpt, -20) /\ ChangeBelow(tpv, prevTpv, -20)
  THEN "critical"
  ELSE IF ChangeBelow(tpt, prevTpt, -10) /\ ~ChangeBelow(tpv, prevTpv, -10)
  THEN "declining_frequency"
  ELSE IF ChangeBelow(tpv, prevTpv, -10) /\ ~ChangeBelow(tpt, prevTpt, -10)
  THEN "value_drop"
  ELSE "performing"

\* the KPI card for the metrics of the end period and of the period it is
\* compared with
KPICard(b, tpt, tpv, prevTpt, prevTpv, q) ==
  [tpt |-> tpt, tpv |-> tpv, prevTpt |-> prevTpt, prevTpv |-> prevTpv,
   category |-> deriveCategory(b, tpt, tpv, prevTpt, prevTpv), query |-> q]

\* period totals the category is derived from: around the -10 and -20
\* percent marks of 100, and totals that are zero or negative
CurrentTotals == {-50, 0, 80, 85, 90, 100}
PreviousTotals == {-100, 0, 100}

InitCategory ==
  /\ InitDashboard
  /\ csvContent = <<>>
  /\ entry = "direct"
  /\ pending = 0
  /\ store = <<>>
  /\ storeAtStart = store
  /\ InitRun

\* fetchKPIMetrics derives the category of the totals it has summed
DeriveCategory ==
  /\ \E b \in Builds, tpt \in CurrentTotals, tpv \in CurrentTotals,
        prevTpt \in PreviousTotals, prevTpv \in PreviousTotals :
       /\ build' = b
       /\ kpiMetrics' = KPICard(b, tpt, tpv, prevTpt, prevTpv, NoQuery)
  /\ UNCHANGED << job, importing, loading, fileInputs, imports, alerts, selection,
                  page, totalRows, table, loads >>

SpecCategory == InitCategory /\ [][DeriveCategory]_vars

\* C25: deriveCategory returns 'performing' only when the TPT change and
\* the TPV change are both at least -10 percent, and 'idle' exactly when tpt
\* and tpv are both 0.
C25_PerformingMeansStable ==
  LET k == kpiMetrics
  IN  /\ (k.category = "performing" /\ ~(k.tpt = 0 /\ k.tpv = 0)) =>
           /\ ~ChangeBelow(k.tpt, k.prevTpt, -10)
           /\ ~ChangeBelow(k.tpv, k.prevTpv, -10)
      /\ k.category = "idle" <=> (k.tpt = 0 /\ k.tpv = 0)

\* ------------------------------------------------------------------------
\* The dashboard: loadAll and the aggregate table
\* ------------------------------------------------------------------------
\* choices of product, pillar, period and rangeEnd the operator moves between
MaxFilters == 2
\* loadAll calls that may be waiting at the same time
MaxLoads == 2

RangeStarts == {1, 2}
Selections == [filter : 1..MaxFilters, rangeStart : RangeStarts]

pageSize == 8
itemsPerPage == 10

PageSizeOf(b) == IF b = "part_002" THEN pageSize ELSE itemsPerPage

\* rows of the aggregate table for a selection: several pages for the first
\* filter, fewer from the later start of range, none for the second filter
RowsOf(s) ==
  CASE s.filter = 1 /\ s.rangeStart = 1 -> 25
    [] s.filter = 1 /\ s.rangeStart = 2 -> 5
    [] s.filter = 2 -> 0
    [] OTHER -> 6 * s.filter

\* Math.ceil(n / d)
Ceil(n, d) == (n + d - 1) \div d

\* rows.slice((p - 1) * size, p * size).length for total rows
SliceCount(total, p, size) ==
  LET start == (p - 1) * size
      end == IF p * size < total THEN p * size ELSE total
  IN  IF end > start THEN end - start ELSE 0

\* what fetchMetricsTable resolves to for a query: part_002 returns the
\* page asked for and the total, part_001 returns all rows
fetchMetricsTable(b, q) ==
  IF b = "part_002"
  THEN [rows |-> SliceCount(RowsOf(q.selection), q.page, pageSize),
        total |-> RowsOf(q.selection)]
  ELSE [rows |-> RowsOf(q.selection), total |-> RowsOf(q.selection)]

\* what fetchKPIMetrics resolves to for a query
fetchKPIMetrics(b, q) ==
  KPICard(b, 4 * RowsOf(q.selection), 40 * RowsOf(q.selection), 100, 1000, q)

\* the values loadAll closes over in the current render
Query == [selection |-> selection, page |-> IF build = "part_002" THEN page ELSE 0]

\* the query the dependencies of the loadAll effect stand for: part_001
\* lists dateParam (rangeEnd || rangeStart), which a new start of range does
\* not change while an end of range is set
EffectDeps(b, sel, p) ==
  IF b = "part_002" THEN << sel, p >> ELSE << sel.filter >>

\* totalPages (part_002) and aggTotalPages (part_001)
TotalPages ==
  IF build = "part_002" THEN Ceil(totalRows, pageSize)
  ELSE Ceil(table.rows, itemsPerPage)

\* the rows the table shows on the current page
ShownRows ==
  IF build = "part_002" THEN table.rows
  ELSE SliceCount(table.rows, page, itemsPerPage)

\* an identifier for a new loadAll call
FreeLoad == CHOOSE n \in 1..(MaxLoads + 2) : \A l \in loads : l.id # n

\* loadAll up to its await: the indicator is shown and the four queries
\* are sent with the values of this render; waiter names the import handler
\* that awaits the call, 0 when none does
BeginLoad(q, waiter) ==
  /\ loading' = TRUE
  /\ loads' = loads \cup {[id |-> FreeLoad, query |-> q, waiter |-> waiter]}

\* the import handler that awaited a loadAll call goes on: handleImportData
\* reaches its finally block, handleImportFromFile awaits loadMerchantRecos
AfterReload(waiter) ==
  IF waiter = 0 THEN UNCHANGED << importing, imports >>
  ELSE \E h \in {g \in imports : g.id = waiter} :
         IF h.kind = "direct"
         THEN /\ imports' = imports \ {h}
              /\ importing' = FALSE
         ELSE /\ imports' = (imports \ {h}) \cup {[h EXCEPT !.at = "recos"]}
              /\ UNCHANGED importing

\* the dependencies of the loadAll effect changed: the effect calls loadAll
\* with the values of the new render
RunLoadEffect(sel, p) ==
  IF EffectDeps(build, sel, p) # EffectDeps(build, selection, page)
  THEN /\ Cardinality(loads) < MaxLoads
       /\ BeginLoad([selection |-> sel, page |-> IF build = "part_002" THEN p ELSE 0], 0)
  ELSE UNCHANGED << loading, loads >>

\* the operator changes product, pillar, period or the date range
ChangeSelection(sel) ==
  /\ sel # selection
  /\ selection' = sel
  /\ RunLoadEffect(sel, page)
  /\ UNCHANGED << job, build, importing, fileInputs, imports, alerts, page,
                  totalRows, table, kpiMetrics >>

\* the Prev button: setPage(p => Math.max(1, p - 1)), disabled on page 1
ClickPrev ==
  /\ page > 1
  /\ page' = page - 1
  /\ RunLoadEffect(selection, page - 1)
  /\ UNCHANGED << job, build, importing, fileInputs, imports, alerts, selection,
                  totalRows, table, kpiMetrics >>

\* the Next button: setPage(p => Math.min(totalPages, p + 1)); part_002
\* disables it when page >= totalPages, part_001 when the page is the last
\* or there is none
ClickNext ==
  /\ IF build = "part_002" THEN ~(page >= TotalPages)
     ELSE ~(page = TotalPages \/ TotalPages = 0)
  /\ \E next \in {IF TotalPages < page + 1 THEN TotalPages ELSE page + 1} :
       /\ page' = next
       /\ RunLoadEffect(selection, next)
  /\ UNCHANGED << job, build, importing, fileInputs, imports, alerts, selection,
                  totalRows, table, kpiMetrics >>

\* the refresh button calls loadAll with the values of the current render
ClickRefresh ==
  /\ Cardinality(loads) < MaxLoads
  /\ BeginLoad(Query, 0)
  /\ UNCHANGED << job, build, importing, fileInputs, imports, alerts, selection,
                  page, totalRows, table, kpiMetrics >>

\* the queries of a loadAll call resolve: the call sets what is shown and
\* hides the indicator; in part_001 a change of the number of rows runs the
\* effect that resets the page
LoadCompletes ==
  \E l \in loads :
    LET res == fetchMetricsTable(build, l.query)
    IN  /\ kpiMetrics' = fetchKPIMetrics(build, l.query)
        /\ table' = [rows |-> res.rows, query |-> l.query]
        /\ totalRows' = IF build = "part_002" THEN res.total ELSE totalRows
        /\ page' = IF build = "part_001" /\ res.rows # table.rows THEN 1 ELSE page
        /\ loading' = FALSE
        /\ loads' = loads \ {l}
        /\ AfterReload(l.waiter)
        /\ UNCHANGED << job, build, fileInputs, alerts, selection >>

\* the dashboard after it is mounted: the loadAll effect has run once
InitView ==
  /\ csvContent = <<>>
  /\ entry = "direct"
  /\ pending = 0
  /\ store = <<>>
  /\ storeAtStart = store
  /\ InitRun
  /\ build \in Builds
  /\ importing = FALSE
  /\ fileInputs = 0
  /\ imports = {}
  /\ alerts = <<>>
  /\ selection = [filter |-> 1, rangeStart |-> 1]
  /\ page = 1
  /\ totalRows = 0
  /\ table = [rows |-> 0, query |-> NoQuery]
  /\ kpiMetrics = [tpt |-> 0, tpv |-> 0, prevTpt |-> 0, prevTpv |-> 0,
                   category |-> "idle", query |-> NoQuery]
  /\ loading = TRUE
  /\ loads = {[id |-> 1, query |-> [selection |-> selection,
                                    page |-> IF build = "part_002" THEN 1 ELSE 0],
               waiter |-> 0]}

NextView ==
  \/ \E sel \in Selections : ChangeSelection(sel)
  \/ ClickPrev
  \/ ClickNext
  \/ ClickRefresh
  \/ LoadCompletes

SpecView == InitView /\ [][NextView]_vars

\* C29: when no loadAll call is waiting any more, the KPI card and the
\* table shown are those fetched for the selection now chosen; the loading
\* indicator is shown while a call is waiting.
C29_NoStaleData ==
  /\ loads = {} =>
       /\ kpiMetrics.query.selection = selection
       /\ table.query.selection = selection
  /\ loads # {} => loading

\* C30: when no loadAll call is waiting, the page of the aggregate table is
\* between 1 and max(1, totalPages), and a result set that has rows is
\* shown with rows.
C30_PaginationBounds ==
  loads = {} =>
    /\ 1 <= page
    /\ page <= (IF TotalPages > 1 THEN TotalPages ELSE 1)
    /\ RowsOf(table.query.selection) > 0 => ShownRows > 0

\* ------------------------------------------------------------------------
\* The dashboard: the two import buttons (part_002)
\* ------------------------------------------------------------------------
\* imports the operator starts in one behaviour
MaxImportRuns == 2

\* what the direct-call import resolves to: a result with errors 0 or 1
DirectResults ==
  { ClientResult(0, 0, "Data imported successfully"),
    ClientResult(2, 0, "Data imported successfully"),
    ClientResult(0, 1, "Import failed") }

\* what the import-data function answers, by either handler; NoResponse is
\* a request that got no answer
HttpAnswers ==
  { Response200(<< PriorRow >>, 1, TRUE), PlainResponse200(<< PriorRow >>),
    Response400, Response500, NoResponse }

\* supabase.functions.invoke resolves to { data, error }: error is set when
\* there is no answer or its status is not 2xx
InvokeError(answer) == answer.status # 200

\* an identifier for a new import handler
FreeImport == CHOOSE n \in 1..(MaxImportRuns + 1) : \A h \in imports : h.id # n

\* imports started so far and not forgotten: alerts shown, handlers running
\* and dialogs open
ImportRuns == Len(alerts) + Cardinality(imports) + fileInputs

\* the success alert of either handler ('Successfully imported ...',
\* 'Successfully cleared existing data and imported ...') for the result of
\* handler h; errors is the errors field of the result the message is about
SuccessAlert(h, body) ==
  [shown |-> "Successfully imported", kind |-> h.kind, imported |-> body.imported,
   errors |-> body.errors]

\* alert("Failed to import data. Check console for details.")
FailureAlert(h) ==
  [shown |-> "Failed to import data", kind |-> h.kind, imported |-> 0, errors |-> 1]

\* the finally block of a handler: setImporting(false)
Finally(h) ==
  /\ importing' = FALSE
  /\ imports' = imports \ {h}

\* handleImportData: the 'Import CSV File' button, disabled while
\* importing, creates a file input and opens its dialog; importing is not
\* set until a file is chosen
ClickImportCsv ==
  /\ ~importing
  /\ ImportRuns < MaxImportRuns
  /\ fileInputs' = fileInputs + 1
  /\ UNCHANGED << job, build, importing, loading, imports, alerts, selection, page,
                  totalRows, table, kpiMetrics, loads >>

\* the dialog is closed without a file: onchange does not fire, or returns
\* at once
CancelFile ==
  /\ fileInputs > 0
  /\ fileInputs' = fileInputs - 1
  /\ UNCHANGED << job, build, importing, loading, imports, alerts, selection, page,
                  totalRows, table, kpiMetrics, loads >>

\* input.onchange with a file: setImporting(true), then await file.text()
ChooseFile ==
  /\ fileInputs > 0
  /\ fileInputs' = fileInputs - 1
  /\ importing' = TRUE
  /\ imports' = imports \cup {[id |-> FreeImport, kind |-> "direct", at |-> "reading"]}
  /\ UNCHANGED << job, build, loading, alerts, selection, page, totalRows, table,
                  kpiMetrics, loads >>

\* file.text() and the dynamic import resolve: importCheckoutData is called
FileRead ==
  /\ \E h \in imports :
       /\ h.kind = "direct" /\ h.at = "reading"
       /\ imports' = (imports \ {h}) \cup {[h EXCEPT !.at = "importing"]}
  /\ UNCHANGED << job, build, importing, loading, fileInputs, alerts, selection,
                  page, totalRows, table, kpiMetrics, loads >>

\* file.text() or the dynamic import rejects: the catch block alerts
FileReadFails ==
  /\ \E h \in imports :
       /\ h.kind = "direct" /\ h.at = "reading"
       /\ alerts' = Append(alerts, FailureAlert(h))
       /\ Finally(h)
  /\ UNCHANGED << job, build, loading, fileInputs, selection, page, totalRows,
                  table, kpiMetrics, loads >>

\* importCheckoutData(csvContent) resolves to its result object: the
\* handler alerts the imported count and awaits loadAll
DirectReturns ==
  /\ Cardinality(loads) < MaxLoads
  /\ \E h \in imports, result \in DirectResults :
       /\ h.kind = "direct" /\ h.at = "importing"
       /\ alerts' = Append(alerts, SuccessAlert(h, result.body))
       /\ imports' = (imports \ {h}) \cup {[h EXCEPT !.at = "reloading"]}
       /\ BeginLoad(Query, h.id)
  /\ UNCHANGED << job, build, importing, fileInputs, selection, page, totalRows,
                  table, kpiMetrics >>

\* handleImportFromFile: the 'Import Uploaded Data' button, disabled while
\* importing; after window.confirm it sets importing and fetches the CSV
ClickImportUploaded(confirmed) ==
  /\ ~importing
  /\ ImportRuns < MaxImportRuns
  /\ IF confirmed
     THEN /\ importing' = TRUE
          /\ imports' = imports \cup {[id |-> FreeImport, kind |-> "http", at |-> "fetching"]}
     ELSE UNCHANGED << importing, imports >>
  /\ UNCHANGED << job, build, loading, fileInputs, alerts, selection, page,
                  totalRows, table, kpiMetrics, loads >>

\* fetch and response.text() resolve: the function is invoked
FetchReturns ==
  /\ \E h \in imports :
       /\ h.kind = "http" /\ h.at = "fetching"
       /\ imports' = (imports \ {h}) \cup {[h EXCEPT !.at = "invoking"]}
  /\ UNCHANGED << job, build, importing, loading, fileInputs, alerts, selection,
                  page, totalRows, table, kpiMetrics, loads >>

\* fetch rejects: the catch block alerts
FetchFails ==
  /\ \E h \in imports :
       /\ h.kind = "http" /\ h.at = "fetching"
       /\ alerts' = Append(alerts, FailureAlert(h))
       /\ Finally(h)
  /\ UNCHANGED << job, build, loading, fileInputs, selection, page, totalRows,
                  table, kpiMetrics, loads >>

\* supabase.functions.invoke resolves: an error is thrown to the catch
\* block, data is alerted and loadAll awaited
InvokeReturns ==
  \E h \in imports, answer \in HttpAnswers :
    /\ h.kind = "http" /\ h.at = "invoking"
    /\ IF InvokeError(answer)
       THEN /\ alerts' = Append(alerts, FailureAlert(h))
            /\ Finally(h)
            /\ UNCHANGED << loading, loads >>
       ELSE /\ Cardinality(loads) < MaxLoads
            /\ alerts' = Append(alerts, SuccessAlert(h, answer.body))
            /\ imports' = (imports \ {h}) \cup {[h EXCEPT !.at = "reloading"]}
            /\ BeginLoad(Query, h.id)
            /\ UNCHANGED importing
    /\ UNCHANGED << job, build, fileInputs, selection, page, totalRows, table,
                    kpiMetrics >>

\* loadMerchantRecos resolves: handleImportFromFile reaches its finally
RecosComplete ==
  /\ \E h \in imports :
       /\ h.kind = "http" /\ h.at = "recos"
       /\ Finally(h)
  /\ UNCHANGED << job, build, loading, fileInputs, alerts, selection, page,
                  totalRows, table, kpiMetrics, loads >>

\* the mounted part_002 dashboard
InitDash ==
  /\ InitView
  /\ build = "part_002"

NextDash ==
  \/ ClickImportCsv
  \/ CancelFile
  \/ ChooseFile
  \/ FileRead
  \/ FileReadFails
  \/ DirectReturns
  \/ \E confirmed \in BOOLEAN : ClickImportUploaded(confirmed)
  \/ FetchReturns
  \/ FetchFails
  \/ InvokeReturns
  \/ RecosComplete
  \/ LoadCompletes

SpecDash == InitDash /\ [][NextDash]_vars

\* C23: the dashboard shows 'Successfully imported' only for an import
\* that succeeded: never for a direct-call result with errors 1, never for
\* an HTTP import that failed.
C23_SuccessOnlyWhenSucceeded ==
  \A k \in 1..Len(alerts) :
    alerts[k].shown = "Successfully imported" => alerts[k].errors = 0

\* C28: at most one import started by the dashboard is in flight, and the
\* importing flag is true exactly while one is.
C28_SingleImportInFlight ==
  /\ Cardinality(imports) <= 1
  /\ importing <=> imports # {}

\* ------------------------------------------------------------------------
\* Reload and a failing batch
\* ------------------------------------------------------------------------
\* the insert calls of the run that succeeded
BatchesInserted == Len(SelectSeq(InsertsAnswered, LAMBDA c : c.ok))

\* C27: when the reload flag is set, the delete-all call succeeded and the
\* k-th insert call failed, the table holds exactly the records of batches
\* 1..k-1 of this run, in order, and none of the rows it held before the run,
\* while the response is a 500 that reports imported 0.
C27_ReloadNotAtomic ==
  (clearExisting /\ pc = "Failed" /\ InsertFailed) =>
    /\ calls[1] = [op |-> "delete", size |-> 0, ok |-> TRUE]
    /\ BatchesInserted = Len(InsertsAnswered) - 1
    /\ store = SubSeq(records, 1, batchSize * BatchesInserted)
    /\ \A k \in 1..Len(store) : store[k] # PriorRow
    /\ response.status = 500
    /\ response.body.imported = 0

\* a reload over a table that held a row: the second insert failed, the
\* old row is gone and the first batch is what the table holds
C27_Witness ==
  /\ clearExisting
  /\ pc = "Failed"
  /\ storeAtStart = << PriorRow >>
  /\ Len(InsertsAnswered) = 2
  /\ ~InsertsAnswered[2].ok
  /\ Len(store) = batchSize
  /\ store = SubSeq(records, 1, batchSize)
  /\ response.body.imported = 0

\* ------------------------------------------------------------------------
\* Termination of an import run
\* ------------------------------------------------------------------------
\* each store call eventually returns, with success or with an error
StoreCallsReturn ==
  /\ WF_vars(PurgeFail \/ PurgeOk)
  /\ WF_vars(InsertFail \/ InsertOk)

SpecBulkLive == InitBulk /\ [][Next]_vars /\ StoreCallsReturn

\* insert calls of the run, answered or awaited
InsertsIssued ==
  Len(InsertsAnswered) + Cardinality({c \in inflight : c.op = "insert"})

Terminal == pc \in {"Completed", "Failed"}

\* C26: a run issues at most one delete-all call and at most
\* ceil(n / batchSize) insert calls for its n accepted records; when every
\* store call returns, a run that awaits one reaches Completed or Failed;
\* once it has, no call is awaited, none is issued and the outcome stays.
C26_Termination ==
  /\ [](/\ DeletesIssued <= 1
        /\ InsertsIssued <= Ceil(Len(records), batchSize)
        /\ Terminal => inflight = {})
  /\ [][Terminal => (pc' = pc /\ calls' = calls /\ inflight' = {})]_vars
  /\ (pc \in {"Purging", "Inserting"}) ~> Terminal

\* a reload of BulkRows records completed after one delete-all call and
\* ceil(BulkRows / batchSize) insert calls
C26_Witness ==
  /\ pc = "Completed"
  /\ clearExisting
  /\ Len(records) = BulkRows
  /\ DeletesIssued = 1
  /\ InsertsIssued = Ceil(BulkRows, batchSize)
  /\ Len(calls) = 1 + Ceil(BulkRows, batchSize)
====
